---- MODULE Spec2Model ----
(***************************************************************************)
(* A model of the file-backed SQL-like database of this repository: the    *)
(* string utilities, the typed cells, the restriction engine, the table    *)
(* engine (insert / update / delete with constraint checks) and the        *)
(* executor.                                                               *)
(*                                                                         *)
(* All program text (queries, literals, cell values, column and table      *)
(* names, type names) is modelled as a sequence of one-character strings,  *)
(* so that quoting, escaping, padding and truncation are computed and not  *)
(* assumed.  Exceptions are modelled as the `err` field of the record an   *)
(* operator returns: "" means no exception was thrown.                     *)
(***************************************************************************)
EXTENDS Integers, Sequences, FiniteSets, TLC

(***************************************************************************)
(* Bounds of the model.                                                    *)
(***************************************************************************)
\* the rows a table file may hold: an INSERT into a table with MaxRows rows
\* is not issued
MaxRows == 2
\* the comparison atoms of a generated WHERE clause
MaxAtoms == 3
\* the depth to which the parentheses of a generated WHERE clause nest
MaxDepth == 1
\* the rows of the table a SELECT with ORDER BY or DISTINCT reads
MaxSelected == 3
\* the items (column definitions and PRIMARY KEY clauses) of a CREATE query
MaxItems == 4

(***************************************************************************)
(* Characters and text.                                                    *)
(***************************************************************************)
\* The byte 0x7F, written as one character.
DEL == "DEL"
\* The value of a char variable holding '\0'.
NUL == "NUL"

\* F of the value e: the way a function of the source names a value it
\* computes once and then reads several times.
With(e, F(_)) == F(e)

Digits == <<"0", "1", "2", "3", "4", "5", "6", "7", "8", "9">>

IsDigit(c) == \E i \in 1..10 : Digits[i] = c

DigitVal(c) == (CHOOSE i \in 1..10 : Digits[i] = c) - 1

\* The characters the model's texts are built from, in ASCII order.
Ascii ==
    <<"\t", " ", "!", "\"", "%", "'", "(", ")", "*", ",", "-", ".",
      "0", "1", "2", "3", "4", "5", "6", "7", "8", "9", ";", "<", "=", ">",
      "A", "B", "C", "D", "E", "F", "G", "H", "I", "J", "K", "L", "M",
      "N", "O", "P", "Q", "R", "S", "T", "U", "V", "W", "X", "Y", "Z",
      "\\", "_",
      "a", "b", "c", "d", "e", "f", "g", "h", "i", "j", "k", "l", "m",
      "n", "o", "p", "q", "r", "s", "t", "u", "v", "w", "x", "y", "z", DEL>>

\* The rank of a character in ASCII order (what char comparison compares).
Ord(c) == CHOOSE i \in 1..Len(Ascii) : Ascii[i] = c

Upper ==
    <<"A", "B", "C", "D", "E", "F", "G", "H", "I", "J", "K", "L", "M",
      "N", "O", "P", "Q", "R", "S", "T", "U", "V", "W", "X", "Y", "Z">>
Lower ==
    <<"a", "b", "c", "d", "e", "f", "g", "h", "i", "j", "k", "l", "m",
      "n", "o", "p", "q", "r", "s", "t", "u", "v", "w", "x", "y", "z">>

tolower(c) ==
    IF \E i \in 1..Len(Upper) : Upper[i] = c
    THEN Lower[CHOOSE i \in 1..Len(Upper) : Upper[i] = c]
    ELSE c

\* std::string operator== on two texts
\* (TLA+ equality of sequences is already that).

\* std::string operator< : lexicographic by character code.
RECURSIVE StrLess(_, _)
StrLess(a, b) ==
    IF b = <<>> THEN FALSE
    ELSE IF a = <<>> THEN TRUE
    ELSE IF Ord(Head(a)) < Ord(Head(b)) THEN TRUE
    ELSE IF Ord(Head(a)) > Ord(Head(b)) THEN FALSE
    ELSE StrLess(Tail(a), Tail(b))

\* s.find(sub) != npos
Contains(s, sub) ==
    \E i \in 1..(Len(s) - Len(sub) + 1) : SubSeq(s, i, i + Len(sub) - 1) = sub

\* s.find(c) for a character: its first index (1-based), 0 for npos
FindChar(s, c) ==
    IF \E i \in 1..Len(s) : s[i] = c
    THEN CHOOSE i \in 1..Len(s) : s[i] = c /\ \A j \in 1..(i - 1) : s[j] # c
    ELSE 0

\* s.find_last_of(c): its last index (1-based), 0 for npos
FindLastOf(s, c) ==
    IF \E i \in 1..Len(s) : s[i] = c
    THEN CHOOSE i \in 1..Len(s) : s[i] = c /\ \A j \in (i + 1)..Len(s) : s[j] # c
    ELSE 0

(***************************************************************************)
(* string_util                                                             *)
(***************************************************************************)
toLowercase(s) == [i \in 1..Len(s) |-> tolower(s[i])]

\* The loop of string_util::split from character i on; st holds the locals
\* (escaped, quoted, quoteChar, os, ret).
RECURSIVE splitFrom(_, _, _, _, _)
splitFrom(s, delim, ignoreQuotes, i, st) ==
    IF i > Len(s) THEN Append(st.ret, st.os)
    ELSE
      LET c == s[i]
          isQ == c = "\"" \/ c = "'"
          toggles == ignoreQuotes /\ c # "\\" /\ isQ /\ ~st.escaped
                     /\ (c = st.quoteChar \/ st.quoteChar = NUL)
          escaped1 == IF ~ignoreQuotes THEN st.escaped
                      ELSE IF c = "\\" THEN ~st.escaped
                      ELSE FALSE
          quoted1 == IF toggles THEN ~st.quoted ELSE st.quoted
          quoteChar1 == IF toggles THEN (IF quoted1 THEN c ELSE NUL)
                        ELSE st.quoteChar
          cut == c = delim /\ (~quoted1 \/ (~escaped1 /\ isQ))
      IN splitFrom(s, delim, ignoreQuotes, i + 1,
                   [escaped |-> escaped1, quoted |-> quoted1,
                    quoteChar |-> quoteChar1,
                    os |-> IF cut THEN <<>> ELSE Append(st.os, c),
                    ret |-> IF cut THEN Append(st.ret, st.os) ELSE st.ret])

\* The loop of string_util::split when ignoreQuotes is false: escaped and
\* quoted stay false, every delim cuts, and the parts are the texts between
\* two cuts (cuts[k] is the index of the k-th delim, 0 and Len(s) + 1 at the
\* two ends).
splitAt(s, cuts) ==
    [k \in 1..(Len(cuts) - 1) |-> SubSeq(s, cuts[k] + 1, cuts[k + 1] - 1)]

splitPlain(s, delim) ==
    splitAt(s, [k \in 1..(Cardinality({i \in 1..Len(s) : s[i] = delim}) + 2) |->
                  IF k = 1 THEN 0
                  ELSE IF k = Cardinality({i \in 1..Len(s) : s[i] = delim}) + 2
                  THEN Len(s) + 1
                  ELSE CHOOSE i \in 1..Len(s) :
                          /\ s[i] = delim
                          /\ Cardinality({j \in 1..(i - 1) : s[j] = delim}) = k - 2])

split(s, delim, ignoreQuotes) ==
    IF ~ignoreQuotes THEN splitPlain(s, delim)
    ELSE splitFrom(s, delim, ignoreQuotes, 1,
                   [escaped |-> FALSE, quoted |-> FALSE, quoteChar |-> NUL,
                    os |-> <<>>, ret |-> <<>>])

\* The scan of extractQuoted over the inner characters: TRUE when an
\* unescaped quoteChar is found at or after index i.
RECURSIVE innerQuoteFrom(_, _, _, _)
innerQuoteFrom(s, quoteChar, i, escaped) ==
    IF i > Len(s) - 1 THEN FALSE
    ELSE IF s[i] = "\\" THEN innerQuoteFrom(s, quoteChar, i + 1, ~escaped)
    ELSE IF s[i] = quoteChar /\ ~escaped THEN TRUE
    ELSE innerQuoteFrom(s, quoteChar, i + 1, FALSE)

extractQuoted(s) ==
    IF s = <<>> THEN s
    ELSE LET quoteChar == s[1]
         IN IF (quoteChar # "\"" /\ quoteChar # "'")
               \/ FindLastOf(s, quoteChar) # Len(s)
            THEN s
            ELSE IF innerQuoteFrom(s, quoteChar, 2, FALSE) THEN s
            ELSE SubSeq(s, 2, Len(s) - 1)

\* getEscapedChar: only ', " and \ can follow a backslash.
CanEscape(c) == c = "'" \/ c = "\"" \/ c = "\\"

\* string_util::getEscapedString from index i on: [err, str].
RECURSIVE getEscapedFrom(_, _, _, _)
getEscapedFrom(s, i, escaped, out) ==
    IF i > Len(s) THEN [err |-> "", str |-> out]
    ELSE IF s[i] = "\\" /\ ~escaped THEN getEscapedFrom(s, i + 1, TRUE, out)
    ELSE IF escaped /\ ~CanEscape(s[i])
         THEN [err |-> "invalid_argument", str |-> out]
    ELSE getEscapedFrom(s, i + 1, FALSE, Append(out, s[i]))

getEscapedString(s) == getEscapedFrom(s, 1, FALSE, <<>>)

(***************************************************************************)
(* Numbers, dates: the standard-library and boost conversions the program  *)
(* calls, for the texts of the model (short, no exponent, no overflow).    *)
(***************************************************************************)
\* The index of the first character of s at or after i that is not a space.
RECURSIVE skipSpaces(_, _)
skipSpaces(s, i) ==
    IF i <= Len(s) /\ s[i] = " " THEN skipSpaces(s, i + 1) ELSE i

\* The index after the run of digits of s that starts at i.
RECURSIVE skipDigits(_, _)
skipDigits(s, i) ==
    IF i <= Len(s) /\ IsDigit(s[i]) THEN skipDigits(s, i + 1) ELSE i

\* The number the digits s[i..j-1] write.
RECURSIVE digitsValue(_, _, _, _)
digitsValue(s, i, j, acc) ==
    IF i >= j THEN acc ELSE digitsValue(s, i + 1, j, 10 * acc + DigitVal(s[i]))

\* std::stoll / std::stoi (s, &pos): leading spaces, an optional sign, then
\* at least one digit.  [ok, val, pos]: pos is the count of characters used.
stoll(s) ==
    With(skipSpaces(s, 1), LAMBDA b :
    With(IF b <= Len(s) /\ (s[b] = "-" \/ s[b] = "+") THEN b + 1 ELSE b, LAMBDA d :
    With(skipDigits(s, d), LAMBDA e :
       IF e = d THEN [ok |-> FALSE, val |-> 0, pos |-> 0]
       ELSE [ok |-> TRUE,
             val |-> IF b <= Len(s) /\ s[b] = "-" THEN 0 - digitsValue(s, d, e, 0)
                     ELSE digitsValue(s, d, e, 0),
             pos |-> e - 1])))

Pow10(k) == IF k = 0 THEN 1 ELSE IF k = 1 THEN 10 ELSE IF k = 2 THEN 100
            ELSE IF k = 3 THEN 1000 ELSE 10000

\* std::stod / std::stof (s): leading spaces, an optional sign, digits with
\* an optional fraction; the rest of s is ignored.  [ok, num, exp]: the
\* value is num / 10^exp.
stod(s) ==
    With(skipSpaces(s, 1), LAMBDA b :
    With(IF b <= Len(s) /\ (s[b] = "-" \/ s[b] = "+") THEN b + 1 ELSE b, LAMBDA d :
    With(skipDigits(s, d), LAMBDA e :
    With(IF e <= Len(s) /\ s[e] = "." THEN skipDigits(s, e + 1) ELSE e, LAMBDA f :
       IF e = d /\ f <= e + 1 THEN [ok |-> FALSE, num |-> 0, exp |-> 0]
       ELSE [ok |-> TRUE,
             num |-> (IF b <= Len(s) /\ s[b] = "-" THEN 0 - 1 ELSE 1)
                     * (digitsValue(s, d, e, 0) * Pow10(IF f > e THEN f - (e + 1) ELSE 0)
                        + digitsValue(s, e + 1, f, 0)),
             exp |-> IF f > e THEN f - (e + 1) ELSE 0]))))

\* a < b and a = b for two values stod returned
DblLess(a, b) == a.num * Pow10(b.exp) < b.num * Pow10(a.exp)
DblEq(a, b) == a.num * Pow10(b.exp) = b.num * Pow10(a.exp)

AllDigits(s) == s # <<>> /\ \A i \in 1..Len(s) : IsDigit(s[i])

\* boost::gregorian::from_string(s) for year-month-day texts written with
\* digits and '-': [ok, val] with val = (year * 100 + month) * 100 + day.
from_string(s) ==
    With(split(s, "-", FALSE), LAMBDA p :
       IF Len(p) = 3 /\ AllDigits(p[1]) /\ AllDigits(p[2]) /\ AllDigits(p[3])
          /\ digitsValue(p[2], 1, Len(p[2]) + 1, 0) \in 1..12
          /\ digitsValue(p[3], 1, Len(p[3]) + 1, 0) \in 1..31
       THEN [ok |-> TRUE,
             val |-> (digitsValue(p[1], 1, Len(p[1]) + 1, 0) * 100
                      + digitsValue(p[2], 1, Len(p[2]) + 1, 0)) * 100
                     + digitsValue(p[3], 1, Len(p[3]) + 1, 0)]
       ELSE [ok |-> FALSE, val |-> 0])

\* The decimal digits of n, at least `width` of them (zero-padded).
RECURSIVE NatToText(_, _)
NatToText(n, width) ==
    IF n < 10 /\ width <= 1 THEN <<Digits[n + 1]>>
    ELSE Append(NatToText(n \div 10, width - 1), Digits[(n % 10) + 1])

\* boost::gregorian::to_iso_extended_string of a date value: YYYY-MM-DD
to_iso_extended_string(val) ==
    NatToText(val \div 10000, 4) \o <<"-">> \o NatToText((val \div 100) % 100, 2)
        \o <<"-">> \o NatToText(val % 100, 2)

(***************************************************************************)
(* Type names and the other fixed texts of the program.                    *)
(***************************************************************************)
T_int == <<"i", "n", "t">>
T_bigint == <<"b", "i", "g", "i", "n", "t">>
T_long == <<"l", "o", "n", "g">>
T_float == <<"f", "l", "o", "a", "t">>
T_double == <<"d", "o", "u", "b", "l", "e">>
T_date == <<"d", "a", "t", "e">>
T_time == <<"t", "i", "m", "e">>
T_char == <<"c", "h", "a", "r">>
T_varchar == <<"v", "a", "r">> \o T_char
W_and == <<"a", "n", "d">>
W_or == <<"o", "r">>
W_null == <<"n", "u", "l", "l">>
W_like == <<"l", "i", "k", "e">>
W_true == <<"t", "r", "u", "e">>
W_false == <<"f", "a", "l", "s", "e">>

\* char(n) and varchar(n) as the parser writes them
CharType(n) == T_char \o <<"(">> \o NatToText(n, 1) \o <<")">>
VarcharType(n) == T_varchar \o <<"(">> \o NatToText(n, 1) \o <<")">>

(***************************************************************************)
(* ColumnMetadata, Column, Row                                             *)
(***************************************************************************)
ColumnMetadata(colName, tableName, colType, references, isPrimaryKey, notNull) ==
    [colName |-> colName, tableName |-> tableName, colType |-> colType,
     references |-> references, primaryKey |-> isPrimaryKey,
     notNull |-> IF isPrimaryKey THEN TRUE ELSE notNull]

\* A default-constructed ColumnMetadata (its two flags are left unset by the
\* constructor; they are never read in that state).
NoMetadata ==
    [colName |-> <<>>, tableName |-> <<>>, colType |-> <<>>,
     references |-> <<>>, primaryKey |-> FALSE, notNull |-> FALSE]

\* The sentinel of an uninitialized Column and the sentinel of SQL NULL.
\* NULL_VALUE is initialised from the C string "\0", whose length is 0.
UNDEFINED == <<DEL>>
NULL_VALUE == <<>>

Column(colValue, metadata) == [colValue |-> colValue, metadata |-> metadata]

\* Column::Column()
NoColumn == Column(UNDEFINED, NoMetadata)

isNull(col) == col.colValue = NULL_VALUE

\* Column::operator bool
IsInitialized(col) == col.colValue # UNDEFINED

\* Column::operator int / operator long long: the whole text must be used.
ConvertsToInt(colValue) ==
    With(stoll(colValue), LAMBDA r : r.ok /\ r.pos = Len(colValue))

\* Row::getColumn: [err, col].  A row is the sequence of its columns.
RECURSIVE getColumnFrom(_, _, _, _, _)
getColumnFrom(columns, i, colNameCopy, tableName, ret) ==
    IF i > Len(columns)
    THEN IF IsInitialized(ret) THEN [err |-> "", col |-> ret]
         ELSE [err |-> "invalid_argument", col |-> ret]
    ELSE IF columns[i].metadata.colName # colNameCopy
         THEN getColumnFrom(columns, i + 1, colNameCopy, tableName, ret)
    ELSE IF tableName = <<>> /\ IsInitialized(ret)
         THEN [err |-> "InvalidQuery", col |-> ret]
    ELSE IF tableName = <<>> \/ columns[i].metadata.tableName = tableName
         THEN getColumnFrom(columns, i + 1, colNameCopy, tableName, columns[i])
    ELSE getColumnFrom(columns, i + 1, colNameCopy, tableName, ret)

getColumn(columns, colName) ==
    IF FindChar(colName, ".") # 0
    THEN With(split(colName, ".", TRUE), LAMBDA parts :
            IF Len(parts) < 2
            \* parts[1] is read past the end of the vector
            THEN [err |-> "undefined_behaviour", col |-> NoColumn]
            ELSE getColumnFrom(columns, 1, extractQuoted(parts[2]),
                               extractQuoted(parts[1]), NoColumn))
    ELSE getColumnFrom(columns, 1, colName, <<>>, NoColumn)

(***************************************************************************)
(* Restriction                                                             *)
(***************************************************************************)
Op_eq == <<"=">>
Op_lt == <<"<">>
Op_le == <<"<", "=">>
Op_gt == <<">">>
Op_ge == <<">", "=">>
Op_ne == <<"!", "=">>

\* compareValues<T>: eq and lt are the verdicts of T's == and <.  [err, val]
compareValues(eq, lt, op) ==
    IF op = Op_eq THEN [err |-> "", val |-> eq]
    ELSE IF op = Op_lt THEN [err |-> "", val |-> lt]
    ELSE IF op = Op_le THEN [err |-> "", val |-> lt \/ eq]
    ELSE IF op = Op_gt THEN [err |-> "", val |-> ~lt /\ ~eq]
    ELSE IF op = Op_ge THEN [err |-> "", val |-> ~lt]
    ELSE IF op = Op_ne THEN [err |-> "", val |-> ~eq]
    ELSE [err |-> "invalid_argument", val |-> FALSE]

\* std::regex_match of val against the regex compareLike builds from a
\* pattern: '%' stands for any text, '_' for any one character, every other
\* character of the model's alphabet for itself.
RECURSIVE likeMatch(_, _)
likeMatch(val, pat) ==
    IF pat = <<>> THEN val = <<>>
    ELSE IF Head(pat) = "%"
         THEN \E k \in 0..Len(val) : likeMatch(SubSeq(val, k + 1, Len(val)), Tail(pat))
    ELSE IF val = <<>> THEN FALSE
    ELSE IF Head(pat) = "_" \/ Head(pat) = Head(val)
         THEN likeMatch(Tail(val), Tail(pat))
    ELSE FALSE

compareLike(val1, val2) == likeMatch(val1, val2)

compareColumnTypes(col1Type, col2Type) ==
    IF Contains(col1Type, T_char) THEN Contains(col2Type, T_char)
    ELSE col1Type = col2Type

\* getColumnValue once row.getColumn(s) has returned or thrown (c)
getColumnValueOf(s, c) ==
    IF c.err = "" THEN [err |-> "", str |-> c.col.colValue]
    ELSE IF c.err = "undefined_behaviour"
         THEN [err |-> "undefined_behaviour", str |-> s]
    ELSE IF s = <<>> THEN [err |-> "out_of_range", str |-> s]
    ELSE IF s[1] # "\"" /\ s[1] # "'" /\ ~stod(s).ok
         THEN [err |-> "InvalidQuery", str |-> s]
    ELSE [err |-> "", str |-> s]

\* getColumnValue: [err, str]
getColumnValue(s, row) ==
    IF toLowercase(s) = W_null THEN [err |-> "", str |-> NULL_VALUE]
    ELSE getColumnValueOf(s, getColumn(row, s))

\* The comparison evaluateRestriction makes of col1Value and col2Value, the
\* types of their columns known: [err, val]
compareColumnValues(col1Value, op, col2Value, any, col1Type, col2Type) ==
    LET bothSet == col1Value # <<>> /\ col2Value # <<>>
    IN IF any /\ ~compareColumnTypes(col1Type, col2Type)
       THEN [err |-> "invalid_argument", val |-> FALSE]
       \* compareNumeric
       ELSE IF any /\ (col1Type = T_int \/ col1Type = T_bigint) /\ bothSet
       THEN With(<<stoll(col1Value), stoll(col2Value)>>, LAMBDA n :
               IF ~n[1].ok \/ ~n[2].ok THEN [err |-> "invalid_argument", val |-> FALSE]
               ELSE compareValues(n[1].val = n[2].val, n[1].val < n[2].val, op))
       \* compareFloatingPoint
       ELSE IF any /\ (col1Type = T_float \/ col1Type = T_double) /\ bothSet
       THEN With(<<stod(col1Value), stod(col2Value)>>, LAMBDA n :
               IF ~n[1].ok \/ ~n[2].ok THEN [err |-> "invalid_argument", val |-> FALSE]
               ELSE compareValues(DblEq(n[1], n[2]), DblLess(n[1], n[2]), op))
       \* compareDates
       ELSE IF any /\ col1Type = T_date /\ bothSet
       THEN With(<<from_string(col1Value), from_string(col2Value)>>, LAMBDA n :
               IF ~n[1].ok \/ ~n[2].ok THEN [err |-> "bad_lexical_cast", val |-> FALSE]
               ELSE compareValues(n[1].val = n[2].val, n[1].val < n[2].val, op))
       \* compareTimes: time_from_string is given the time of day with no
       \* date before it
       ELSE IF any /\ col1Type = T_time /\ bothSet
       THEN [err |-> "bad_lexical_cast", val |-> FALSE]
       ELSE With(<<extractQuoted(col1Value), extractQuoted(col2Value)>>, LAMBDA t :
               IF toLowercase(op) # W_like
               THEN compareValues(t[1] = t[2], StrLess(t[1], t[2]), op)
               ELSE [err |-> "", val |-> compareLike(t[1], t[2])])

\* evaluateRestriction once col1 and col2 are set (NoColumn when the operand
\* is no column of the row or is NULL): [err, val]
evaluateColumns(col1Value, op, col2Value, col1, col2) ==
    compareColumnValues(col1Value, op, col2Value,
        IsInitialized(col1) \/ IsInitialized(col2),
        IF IsInitialized(col1) THEN col1.metadata.colType
        ELSE IF IsInitialized(col2) THEN col2.metadata.colType
        ELSE <<>>,
        IF IsInitialized(col2) THEN col2.metadata.colType
        ELSE IF IsInitialized(col1) THEN col1.metadata.colType
        ELSE <<>>)

\* evaluateRestriction once getColumnValue has returned or thrown for both
\* operands (v1, v2): [err, val]
evaluateValues(first, op, second, row, v1, v2) ==
    IF v1.err # "" THEN [err |-> v1.err, val |-> FALSE]
    ELSE IF v2.err # "" THEN [err |-> v2.err, val |-> FALSE]
    ELSE evaluateColumns(v1.str, op, v2.str,
            IF v1.str # first /\ v1.str # NULL_VALUE
            THEN getColumn(row, first).col ELSE NoColumn,
            IF v2.str # second /\ v2.str # NULL_VALUE
            THEN getColumn(row, second).col ELSE NoColumn)

\* evaluateRestriction: [err, val]
evaluateRestriction(first, op, second, row) ==
    evaluateValues(first, op, second, row,
                   getColumnValue(first, row), getColumnValue(second, row))

\* The texts of parts joined, each followed by sep.
RECURSIVE joinWith(_, _)
joinWith(parts, sep) ==
    IF parts = <<>> THEN <<>>
    ELSE Head(parts) \o sep \o joinWith(Tail(parts), sep)

\* The loop of Restriction::parseRestriction over parts[i..]: stack is
\* operatorStack (its top is its last element), out the parts streamed to
\* restrictionStream.  [err, out]
RECURSIVE parseRestrictionFrom(_, _, _, _)

\* A variant of drainOperatorStack that streams the operators in the order
\* they were met, as a queue would.
drainOperatorQueue(stack, out) == out \o stack

\* `while (!operatorStack.empty())`: the operators left on the stack are
\* streamed from its top down.
drainOperatorStack(stack, out) ==
    out \o [k \in 1..Len(stack) |-> stack[Len(stack) + 1 - k]]

parseRestrictionFrom(parts, i, stack, out) ==
    IF i > Len(parts)
    THEN [err |-> "", out |-> drainOperatorStack(stack, out)]
    ELSE LET part == parts[i]
             low == toLowercase(part)
         IN IF low = W_and \/ low = W_or \/ part = <<"(">>
            THEN parseRestrictionFrom(parts, i + 1, Append(stack, low), out)
            ELSE IF part = <<")">>
            THEN LET opens == {k \in 1..Len(stack) : stack[k] = <<"(">>}
                 IN IF opens = {}
                    \* operatorStack.top() of an empty stack
                    THEN [err |-> "undefined_behaviour", out |-> out]
                    ELSE LET k == CHOOSE x \in opens : \A y \in opens : y <= x
                         IN parseRestrictionFrom(parts, i + 1, SubSeq(stack, 1, k - 1),
                               out \o [j \in 1..(Len(stack) - k) |->
                                          stack[Len(stack) + 1 - j]])
            ELSE parseRestrictionFrom(parts, i + 1, stack, Append(out, part))

\* Restriction::Restriction + parseRestriction: the postfix text the object
\* holds in its field `restriction`.  [err, restriction]
parseRestriction(restriction) ==
    IF restriction = <<>> THEN [err |-> "", restriction |-> <<>>]
    ELSE With(parseRestrictionFrom(split(restriction, " ", TRUE), 1, <<>>, <<>>),
         LAMBDA r :
            [err |-> r.err,
             \* Erase last space
             restriction |-> IF r.out = <<>> THEN <<>>
                             ELSE SubSeq(joinWith(r.out, <<" ">>), 1,
                                         Len(joinWith(r.out, <<" ">>)) - 1)])

\* The loop of Restriction::apply from parts[i] on; stack is
\* restrictionResultStack (top last).  [err, val]
RECURSIVE applyFrom(_, _, _, _)

\* One turn of the loop at a comparison, r being what evaluateRestriction
\* returned or threw for parts[i..i+2]
applyResult(parts, i, stack, row, r) ==
    LET st1 == Append(stack, r.val)
        j == i + 3
    IN IF r.err # "" THEN [err |-> r.err, val |-> FALSE]
       ELSE IF j <= Len(parts) /\ (parts[j] = W_and \/ parts[j] = W_or)
       THEN IF Len(st1) < 2
            THEN [err |-> "undefined_behaviour", val |-> FALSE]
            ELSE applyFrom(parts, j + 1,
                     Append(SubSeq(st1, 1, Len(st1) - 2),
                            IF parts[j] = W_and
                            THEN st1[Len(st1)] /\ st1[Len(st1) - 1]
                            ELSE st1[Len(st1)] \/ st1[Len(st1) - 1]), row)
       ELSE applyFrom(parts, j, st1, row)

applyFrom(parts, i, stack, row) ==
    IF i > Len(parts)
    THEN IF stack = <<>> THEN [err |-> "undefined_behaviour", val |-> FALSE]
         ELSE [err |-> "", val |-> stack[Len(stack)]]
    ELSE IF parts[i] # W_and /\ parts[i] # W_or
    THEN IF i + 2 > Len(parts)
         THEN [err |-> "undefined_behaviour", val |-> FALSE]
         ELSE applyResult(parts, i, stack, row,
                  evaluateRestriction(parts[i], parts[i + 1], parts[i + 2], row))
    ELSE IF Len(stack) < 2 THEN [err |-> "undefined_behaviour", val |-> FALSE]
    ELSE applyFrom(parts, i + 1,
             Append(SubSeq(stack, 1, Len(stack) - 2),
                    IF parts[i] = W_and
                    THEN stack[Len(stack)] /\ stack[Len(stack) - 1]
                    ELSE stack[Len(stack)] \/ stack[Len(stack) - 1]), row)

\* Restriction::apply of a Restriction whose field holds `restriction`
\* (postfix) to a row.  [err, val]
apply(restriction, row) ==
    IF restriction = <<>> THEN [err |-> "", val |-> TRUE]
    ELSE applyFrom(split(restriction, " ", TRUE), 1, <<>>, row)

(***************************************************************************)
(* Files.  A table file is its schema header (one record per column: the   *)
(* five tokens "name" "type" "references" primary notNull) and its row     *)
(* lines; a row line is the sequence of its cells.  Cells are written and  *)
(* read with std::quoted, so a line is modelled by the cell texts          *)
(* themselves.                                                             *)
(***************************************************************************)
NoFile == [exists |-> FALSE, header |-> <<>>, rows |-> <<>>]

File(header, rows) == [exists |-> TRUE, header |-> header, rows |-> rows]

\* One column of a schema header, as CREATE writes it.
HeaderColumn(colName, colType, references, primaryKey, notNull) ==
    [colName |-> colName, colType |-> colType, references |-> references,
     primaryKey |-> primaryKey, notNull |-> notNull]

\* Schema::Schema(tableName, s): the metadata of the header's columns, each
\* given the table name the caller passes.
Schema(tableName, header) ==
    [i \in 1..Len(header) |->
        [colName |-> header[i].colName, tableName |-> tableName,
         colType |-> header[i].colType, references |-> header[i].references,
         primaryKey |-> header[i].primaryKey, notNull |-> header[i].notNull]]

\* Schema::hasColumn for an unqualified name
hasColumn(schema, colName) == \E i \in 1..Len(schema) : schema[i].colName = colName

\* Schema::getColumnIndex (1-based; 0 stands for -1)
getColumnIndex(schema, colName) ==
    IF hasColumn(schema, colName)
    THEN CHOOSE i \in 1..Len(schema) :
            schema[i].colName = colName /\ \A j \in 1..(i - 1) : schema[j].colName # colName
    ELSE 0

\* operator>>(istream, Row): the cells of a line, each with the metadata of
\* its position in the row's schema.
ReadRow(schema, line) == [i \in 1..Len(line) |-> Column(line[i], schema[i])]

\* The whitespace-separated tokens of the header line.
RECURSIVE HeaderTokens(_)
HeaderTokens(header) ==
    IF header = <<>> THEN <<>>
    ELSE <<Head(header).colName, Head(header).colType, Head(header).references,
           IF Head(header).primaryKey THEN W_true ELSE W_false,
           IF Head(header).notNull THEN W_true ELSE W_false>>
         \o HeaderTokens(Tail(header))

\* The files of the table directory as fs::directory_iterator lists them:
\* every table file and every temp file, each with the stem of its path.
DirFiles(tables, tmps) ==
    {[stem |-> n, file |-> tables[n]] : n \in {m \in DOMAIN tables : tables[m].exists}}
    \cup {[stem |-> n, file |-> tmps[n]] : n \in {m \in DOMAIN tmps : tmps[m].exists}}

(***************************************************************************)
(* table_io_util                                                           *)
(***************************************************************************)
\* boost::posix_time::time_from_string of today's date, a space and the
\* value: hours, minutes and seconds written with digits and ':'.
ConvertsToTime(value) ==
    LET p == split(value, ":", FALSE)
    IN Len(p) = 3 /\ AllDigits(p[1]) /\ AllDigits(p[2]) /\ AllDigits(p[3])

\* formatColumnValue of a char or varchar column: type and limit are the two
\* parts of the column type, e is the unquoted value with its escapes
\* resolved.  [err, str]
formatChars(colValue, type, limit, e) ==
    IF e.err # "" THEN [err |-> e.err, str |-> colValue]
    ELSE IF Len(e.str) > limit
         THEN [err |-> "", str |-> SubSeq(e.str, 1, limit)]
    ELSE IF Len(e.str) < limit /\ type = T_char
         THEN [err |-> "", str |-> e.str \o [k \in 1..(limit - Len(e.str)) |-> " "]]
    ELSE [err |-> "", str |-> e.str]

\* formatColumnValue: [err, str]
formatColumnValue(colType, colValue) ==
    IF colType = T_date
    THEN With(from_string(colValue), LAMBDA d :
            IF d.ok THEN [err |-> "", str |-> to_iso_extended_string(d.val)]
            ELSE [err |-> "bad_lexical_cast", str |-> colValue])
    ELSE IF colType = T_time
    THEN With(split(colValue, ":", FALSE), LAMBDA p :
            IF Len(p) = 3 /\ AllDigits(p[1]) /\ AllDigits(p[2]) /\ AllDigits(p[3])
            THEN [err |-> "",
                  str |-> NatToText(digitsValue(p[1], 1, Len(p[1]) + 1, 0), 2) \o <<":">>
                          \o NatToText(digitsValue(p[2], 1, Len(p[2]) + 1, 0), 2) \o <<":">>
                          \o NatToText(digitsValue(p[3], 1, Len(p[3]) + 1, 0), 2)]
            ELSE [err |-> "bad_lexical_cast", str |-> colValue])
    ELSE IF Contains(colType, T_char)
    THEN With(split(colType, "(", FALSE), LAMBDA typeParts :
            formatChars(colValue, typeParts[1],
                        stoll(SubSeq(typeParts[2], 1, Len(typeParts[2]) - 1)).val,
                        getEscapedString(extractQuoted(colValue))))
    ELSE [err |-> "", str |-> colValue]

\* The outcomes of reading referencedColParts[1] when the reference holds no
\* '.', which is a read past the end of a one-element vector: the program
\* goes on with a text that names no column, or an exception of the
\* standard library is thrown, or the process is killed.
OutOfBoundsOutcomes == {"garbage", "std::exception", "crash"}

\* std::ifstream(TABLE_DIRECTORY + table + TABLE_EXTENSION): a file that
\* cannot be opened reads as no header and no row.
OpenTable(tables, table) == IF table \in DOMAIN tables THEN tables[table] ELSE NoFile

\* The loop `while (!found && tableFile >> row)` that validateReferencedColumn
\* and validateReferencedBy(metadata, oldValue, path) make over the row lines
\* of a file, from line i on, looking for value in the column colName: what
\* getColumn throws, or found at the first row that holds the value, or
\* notFound.
RECURSIVE scanRowsFrom(_, _, _, _, _, _, _)

\* One turn of the loop, g being what row.getColumn(colName) returned or threw
scanRow(schema, lines, i, colName, value, found, notFound, g) ==
    IF g.err # "" THEN g.err
    ELSE IF ~isNull(g.col) /\ g.col.colValue = value THEN found
    ELSE scanRowsFrom(schema, lines, i + 1, colName, value, found, notFound)

scanRowsFrom(schema, lines, i, colName, value, found, notFound) ==
    IF i > Len(lines) THEN notFound
    ELSE scanRow(schema, lines, i, colName, value, found, notFound,
                 getColumn(ReadRow(schema, lines[i]), colName))

\* table_io_util::validateReferencedColumn: the error thrown, "" for none.
\* ub is the outcome of the out-of-bounds read, when it happens.
validateReferencedColumn(tables, metadata, colValue, ub) ==
    IF metadata.references = <<>> THEN ""
    ELSE With(split(metadata.references, ".", FALSE), LAMBDA referencedColParts :
            IF Len(referencedColParts) < 2 /\ ub # "garbage" THEN ub
            ELSE scanRowsFrom(
                    Schema(metadata.tableName,
                           OpenTable(tables, referencedColParts[1]).header),
                    OpenTable(tables, referencedColParts[1]).rows, 1,
                    IF Len(referencedColParts) < 2 THEN <<NUL>>
                    ELSE referencedColParts[2],
                    colValue, "", "InvalidQuery: does not reference"))

Referenced == "InvalidQuery: references a value being modified or deleted"

\* The index of the first column of schema whose reference is target, 0 when
\* there is none: the column the loop of validateReferencedBy breaks at.
FirstReferencing(schema, target) ==
    IF \E i \in 1..Len(schema) : schema[i].references = target
    THEN CHOOSE i \in 1..Len(schema) :
            /\ schema[i].references = target
            /\ \A j \in 1..(i - 1) : schema[j].references # target
    ELSE 0

\* table_io_util::validateReferencedBy(metadata, oldValue, path): the error
\* thrown while the file f (a member of DirFiles) is examined, "" for none.
validateReferencedByPath(metadata, oldValue, f) ==
    With(FirstReferencing(Schema(f.stem, f.file.header),
                          metadata.tableName \o <<".">> \o metadata.colName),
         LAMBDA c :
            IF c = 0 THEN ""
            ELSE scanRowsFrom(Schema(f.stem, f.file.header), f.file.rows, 1,
                              f.file.header[c].colName, oldValue, Referenced, ""))

\* table_io_util::validateReferencedBy(metadata, oldValue): the errors the
\* scan of the directory can end with ({} when it throws nothing).  The
\* order in which the directory lists its files is not specified, so each
\* file that throws may be the first one examined.
validateReferencedBy(dir, metadata, oldValue) ==
    {validateReferencedByPath(metadata, oldValue, f) : f \in dir} \ {""}

\* The error a scan ends with, given the one the directory order favours.
FirstThrown(errs, pref) ==
    IF errs = {} THEN ""
    ELSE IF pref \in errs THEN pref
    ELSE CHOOSE e \in errs : TRUE

(***************************************************************************)
(* Table                                                                   *)
(***************************************************************************)
\* Table::validateDataType: the error thrown, "" for none.
validateDataType(dataType, value) ==
    IF value = NULL_VALUE THEN ""
    ELSE LET bad == "InvalidQuery: Invalid data type"
         IN IF dataType = T_int THEN (IF ConvertsToInt(value) THEN "" ELSE bad)
            ELSE IF dataType = T_long THEN (IF ConvertsToInt(value) THEN "" ELSE bad)
            ELSE IF dataType = T_float THEN (IF stod(value).ok THEN "" ELSE bad)
            ELSE IF dataType = T_double THEN (IF stod(value).ok THEN "" ELSE bad)
            ELSE IF dataType = T_date THEN (IF from_string(value).ok THEN "" ELSE bad)
            ELSE IF dataType = T_time THEN (IF ConvertsToTime(value) THEN "" ELSE bad)
            ELSE IF Contains(dataType, T_char)
                 THEN (IF extractQuoted(value) = value THEN bad ELSE "")
            ELSE ""

\* What `is >> std::quoted(column)`, done index + 1 times, leaves in column
\* (index is 0-based): a failed extraction leaves the text read before it.
TokenAt(line, index) ==
    IF line = <<>> THEN <<>>
    ELSE IF index + 1 <= Len(line) THEN line[index + 1]
    ELSE line[Len(line)]

\* Table::checkForDuplicateValue: the error thrown, "" for none.  The stream
\* is at position 0 when it is called, so the first line read is the schema
\* header.
checkForDuplicateValue(file, value, index) ==
    IF \/ TokenAt(HeaderTokens(file.header), index) = value
       \/ \E i \in 1..Len(file.rows) : TokenAt(file.rows[i], index) = value
    THEN "InvalidQuery: Primary key must be unique"
    ELSE ""

\* Table::validateColumnValue: the error thrown, "" for none.
validateColumnValue(tables, file, metadata, colValue, indexInSchema, ub) ==
    IF validateDataType(metadata.colType, colValue) # ""
    THEN "InvalidQuery: Invalid data type"
    ELSE IF metadata.notNull /\ colValue = NULL_VALUE
    THEN "InvalidQuery: cannot be null"
    ELSE IF colValue = NULL_VALUE THEN ""
    ELSE IF metadata.primaryKey
            /\ checkForDuplicateValue(file, colValue, indexInSchema) # ""
    THEN "InvalidQuery: Primary key must be unique"
    ELSE validateReferencedColumn(tables, metadata, colValue, ub)

\* The loop of Table::insertRow over the columns from index i (1-based) on:
\* [err, row], row being the formatted cells.
RECURSIVE insertRowFrom(_, _, _, _, _, _)

\* One turn of the loop, v being what validateColumnValue threw ("" for
\* nothing) and f what formatColumnValue made of the value
insertColumn(tables, file, schema, row, i, ub, v, f) ==
    IF v # "" THEN [err |-> v, row |-> row]
    ELSE IF f.err # "" THEN [err |-> f.err, row |-> row]
    ELSE insertRowFrom(tables, file, schema, [row EXCEPT ![i] = f.str], i + 1, ub)

insertRowFrom(tables, file, schema, row, i, ub) ==
    IF i > Len(row) THEN [err |-> "", row |-> row]
    ELSE insertColumn(tables, file, schema, row, i, ub,
             validateColumnValue(tables, file, schema[i], row[i], i - 1, ub),
             formatColumnValue(schema[i].colType, row[i]))

\* Row::Row(schema, values): [err, row]
RowOfValues(schema, values) ==
    IF \E i \in 1..Len(schema) : getEscapedString(values[i]).err # ""
    THEN [err |-> "invalid_argument", row |-> <<>>]
    ELSE [err |-> "", row |-> [i \in 1..Len(schema) |-> getEscapedString(values[i]).str]]

\* `*tableStream << row << std::endl` when the loop of insertRow ended
\* without an exception (v.err = ""): [err, tables]
appendRow(tables, tableName, v) ==
    IF v.err # "" THEN [err |-> v.err, tables |-> tables]
    ELSE [err |-> "", tables |-> [tables EXCEPT ![tableName].rows = Append(@, v.row)]]

\* Table::insertRow of the Row r made of the query's values: [err, tables]
insertRowOf(tables, tableName, ub, r) ==
    IF r.err # "" THEN [err |-> r.err, tables |-> tables]
    ELSE appendRow(tables, tableName,
             insertRowFrom(tables, tables[tableName],
                           Schema(tableName, tables[tableName].header), r.row, 1, ub))

\* insertIntoTable and Table::insertRow on the table tableName, for the
\* values of the query in schema order: [err, tables]
insertRow(tables, tableName, values, ub) ==
    insertRowOf(tables, tableName, ub,
                RowOfValues(Schema(tableName, tables[tableName].header), values))

\* The cells of one row that passes the restriction, as writeUpdatedRows
\* emits them, from column i on: [err, cells].  dir is the directory as the
\* referenced-by check sees it at that moment.
RECURSIVE updatedCellsFrom(_, _, _, _, _, _, _)

\* The cell of the column to update, e being what validateReferencedBy threw
updatedCell(dir, row, i, colName, newValue, pref, cells, e) ==
    IF e # "" THEN [err |-> e, cells |-> cells]
    ELSE updatedCellsFrom(dir, row, i + 1, colName, newValue, pref,
                          Append(cells, newValue))

updatedCellsFrom(dir, row, i, colName, newValue, pref, cells) ==
    IF i > Len(row) THEN [err |-> "", cells |-> cells]
    ELSE IF row[i].metadata.colName = colName
    THEN updatedCell(dir, row, i, colName, newValue, pref, cells,
             FirstThrown(validateReferencedBy(dir, row[i].metadata, row[i].colValue),
                         pref))
    ELSE updatedCellsFrom(dir, row, i + 1, colName, newValue, pref,
                          Append(cells, row[i].colValue))

\* The loop of Table::writeUpdatedRows from row i on; out is the temp file
\* as written so far.  [err, tmp]: the temp file when the loop ends or an
\* exception leaves it.
RECURSIVE writeUpdatedRowsFrom(_, _, _, _, _, _, _, _, _)

\* The row written for a row that passes the restriction, c being its cells
\* or what was thrown while they were made
writeUpdatedCells(tables, tmps, tableName, restriction, colName, newValue, pref, i, out, c) ==
    IF c.err # ""
    \* the cells written before the exception reach the file when the
    \* stream is destroyed
    THEN [err |-> c.err,
          tmp |-> IF c.cells = <<>> THEN out
                  ELSE File(out.header, Append(out.rows, c.cells))]
    ELSE writeUpdatedRowsFrom(tables, tmps, tableName, restriction, colName, newValue,
             pref, i + 1, File(out.header, Append(out.rows, c.cells)))

\* A variant of writeUpdatedRow that substitutes the cells of every row,
\* whatever restriction.apply(row) returned
writeUpdatedRowOfEvery(tables, tmps, tableName, restriction, colName, newValue, pref, i, out, a) ==
    IF a.err # "" THEN [err |-> a.err, tmp |-> out]
    ELSE writeUpdatedCells(tables, tmps, tableName, restriction, colName, newValue,
             pref, i, out,
             updatedCellsFrom(DirFiles(tables, [tmps EXCEPT ![tableName] = out]),
                              ReadRow(Schema(tableName, tables[tableName].header),
                                      tables[tableName].rows[i]),
                              1, colName, newValue, pref, <<>>))

\* One turn of the loop, a being what restriction.apply(row) returned or threw
writeUpdatedRow(tables, tmps, tableName, restriction, colName, newValue, pref, i, out, a) ==
    IF a.err # "" THEN [err |-> a.err, tmp |-> out]
    ELSE IF ~a.val
    THEN writeUpdatedRowsFrom(tables, tmps, tableName, restriction, colName, newValue,
             pref, i + 1, File(out.header, Append(out.rows, tables[tableName].rows[i])))
    ELSE writeUpdatedCells(tables, tmps, tableName, restriction, colName, newValue,
             pref, i, out,
             updatedCellsFrom(DirFiles(tables, [tmps EXCEPT ![tableName] = out]),
                              ReadRow(Schema(tableName, tables[tableName].header),
                                      tables[tableName].rows[i]),
                              1, colName, newValue, pref, <<>>))

writeUpdatedRowsFrom(tables, tmps, tableName, restriction, colName, newValue, pref, i, out) ==
    IF i > Len(tables[tableName].rows) THEN [err |-> "", tmp |-> out]
    ELSE writeUpdatedRow(tables, tmps, tableName, restriction, colName, newValue, pref,
             i, out,
             apply(restriction, ReadRow(Schema(tableName, tables[tableName].header),
                                        tables[tableName].rows[i])))

\* A variant of renameTemp in which the rename is reached on every path,
\* as it would be were it made by a scope guard: after an exception the table
\* file becomes what the loop had written.
renameTempOnEveryPath(tables, tmps, tableName, w) ==
    [err |-> w.err, tables |-> [tables EXCEPT ![tableName] = w.tmp],
     tmps |-> [tmps EXCEPT ![tableName] = NoFile]]

\* How writeUpdatedRows and writeUndeletedRows end, w being what their loop
\* left: std::rename(tmpFilePath, tableStreamPath) unless an exception left
\* the function before it.  [err, tables, tmps]
renameTemp(tables, tmps, tableName, w) ==
    IF w.err # ""
    THEN [err |-> w.err, tables |-> tables,
          tmps |-> [tmps EXCEPT ![tableName] = w.tmp]]
    ELSE [err |-> "", tables |-> [tables EXCEPT ![tableName] = w.tmp],
          tmps |-> [tmps EXCEPT ![tableName] = NoFile]]

\* Table::writeUpdatedRows: [err, tables, tmps]
writeUpdatedRows(tables, tmps, tableName, restriction, colName, newValue, pref) ==
    renameTemp(tables, tmps, tableName,
        writeUpdatedRowsFrom(tables, tmps, tableName, restriction, colName, newValue,
                             pref, 1, File(tables[tableName].header, <<>>)))

\* The end of the loop of Table::updateRows, v being what validateColumnValue
\* threw for the one entry and f what formatColumnValue made of its value
updateValidated(tables, tmps, tableName, restriction, colName, pref, v, f) ==
    IF v # "" THEN [err |-> v, tables |-> tables, tmps |-> tmps]
    ELSE IF f.err # "" THEN [err |-> f.err, tables |-> tables, tmps |-> tmps]
    ELSE writeUpdatedRows(tables, tmps, tableName, restriction, colName, f.str, pref)

\* Table::updateRows without the test of metadata.isPrimaryKey() &&
\* restriction.isEmpty()
updateRowsOfAnyKey(tables, tmps, tableName, restriction, colName, value, ub, pref) ==
    LET schema == Schema(tableName, tables[tableName].header)
        index == getColumnIndex(schema, colName)
    IN IF index = 0
       THEN [err |-> "invalid_argument", tables |-> tables, tmps |-> tmps]
       ELSE updateValidated(tables, tmps, tableName, restriction, colName, pref,
                validateColumnValue(tables, tables[tableName], schema[index], value,
                                    index - 1, ub),
                formatColumnValue(schema[index].colType, value))

\* Table::updateRows for an UpdateMap of one entry (colName -> value) and the
\* restriction (postfix) set on the table: [err, tables, tmps]
updateRows(tables, tmps, tableName, restriction, colName, value, ub, pref) ==
    LET schema == Schema(tableName, tables[tableName].header)
        index == getColumnIndex(schema, colName)
    IN IF index = 0
       \* Schema::getColumnMetadata throws
       THEN [err |-> "invalid_argument", tables |-> tables, tmps |-> tmps]
       ELSE IF schema[index].primaryKey /\ restriction = <<>>
       THEN [err |-> "InvalidQuery: Primary key must be unique",
             tables |-> tables, tmps |-> tmps]
       ELSE updateValidated(tables, tmps, tableName, restriction, colName, pref,
                validateColumnValue(tables, tables[tableName], schema[index], value,
                                    index - 1, ub),
                formatColumnValue(schema[index].colType, value))

\* The check of one row that passes the restriction in writeUndeletedRows,
\* from column i on: the first error validateReferencedBy throws, "" for none.
RECURSIVE deletedRowCheckFrom(_, _, _, _)

\* One turn of the check, e being what validateReferencedBy threw
deletedCell(dir, row, i, pref, e) ==
    IF e # "" THEN e ELSE deletedRowCheckFrom(dir, row, i + 1, pref)

deletedRowCheckFrom(dir, row, i, pref) ==
    IF i > Len(row) THEN ""
    ELSE deletedCell(dir, row, i, pref,
             FirstThrown(validateReferencedBy(dir, row[i].metadata, row[i].colValue),
                         pref))

\* The loop of Table::writeUndeletedRows from row i on: [err, tmp], tmp being
\* the temp file the loop leaves (NoFile once std::remove has run).
RECURSIVE writeUndeletedRowsFrom(_, _, _, _, _, _, _)

\* A row that passes the restriction, e being what its check threw
writeDeletedRow(tables, tmps, tableName, restriction, pref, i, out, e) ==
    \* catch: std::remove(tmpFilePath), throw
    IF e # "" THEN [err |-> e, tmp |-> NoFile]
    ELSE writeUndeletedRowsFrom(tables, tmps, tableName, restriction, pref, i + 1, out)

\* A variant of writeUndeletedRow that keeps, of the rows that fail the
\* restriction, only those that follow a row of the temp file
writeUndeletedRowAfterFirst(tables, tmps, tableName, restriction, pref, i, out, a) ==
    IF a.err # "" THEN [err |-> a.err, tmp |-> out]
    ELSE IF ~a.val
    THEN writeUndeletedRowsFrom(tables, tmps, tableName, restriction, pref, i + 1,
             File(out.header, IF i = 1 /\ Len(tables[tableName].rows) > 1
                              THEN out.rows
                              ELSE Append(out.rows, tables[tableName].rows[i])))
    ELSE writeDeletedRow(tables, tmps, tableName, restriction, pref, i, out,
             deletedRowCheckFrom(DirFiles(tables, [tmps EXCEPT ![tableName] = out]),
                                 ReadRow(Schema(tableName, tables[tableName].header),
                                         tables[tableName].rows[i]),
                                 1, pref))

\* One turn of the loop, a being what restriction.apply(row) returned or threw
writeUndeletedRow(tables, tmps, tableName, restriction, pref, i, out, a) ==
    IF a.err # "" THEN [err |-> a.err, tmp |-> out]
    ELSE IF ~a.val
    THEN writeUndeletedRowsFrom(tables, tmps, tableName, restriction, pref, i + 1,
             File(out.header, Append(out.rows, tables[tableName].rows[i])))
    ELSE writeDeletedRow(tables, tmps, tableName, restriction, pref, i, out,
             deletedRowCheckFrom(DirFiles(tables, [tmps EXCEPT ![tableName] = out]),
                                 ReadRow(Schema(tableName, tables[tableName].header),
                                         tables[tableName].rows[i]),
                                 1, pref))

writeUndeletedRowsFrom(tables, tmps, tableName, restriction, pref, i, out) ==
    IF i > Len(tables[tableName].rows) THEN [err |-> "", tmp |-> out]
    ELSE writeUndeletedRow(tables, tmps, tableName, restriction, pref, i, out,
             apply(restriction, ReadRow(Schema(tableName, tables[tableName].header),
                                        tables[tableName].rows[i])))

\* Table::writeUndeletedRows: [err, tables, tmps]
writeUndeletedRows(tables, tmps, tableName, restriction, pref) ==
    renameTemp(tables, tmps, tableName,
        writeUndeletedRowsFrom(tables, tmps, tableName, restriction, pref, 1,
                               File(tables[tableName].header, <<>>)))

\* Table::deleteRows: [err, tables, tmps]
deleteRows(tables, tmps, tableName, restriction, pref) ==
    writeUndeletedRows(tables, tmps, tableName, restriction, pref)

(***************************************************************************)
(* Query: the parts of the parser a SELECT's WHERE clause goes through.    *)
(***************************************************************************)
\* isColumnName
isColumnName(s) ==
    IF s[1] = "\"" THEN FALSE
    ELSE ~stod(s).ok

\* The loop of extractJoinConditions from parts[index] on (1-based):
\* [err, str]
RECURSIVE extractJoinConditionsFrom(_, _, _)
extractJoinConditionsFrom(parts, index, joinConditions) ==
    IF index > Len(parts) THEN [err |-> "", str |-> joinConditions]
    ELSE IF index + 2 > Len(parts)
    \* parts[index + 2] is read past the end of the vector
    THEN [err |-> "undefined_behaviour", str |-> joinConditions]
    ELSE LET left == parts[index]
             right == parts[index + 2]
             updateJoinConditions == isColumnName(left) /\ isColumnName(right)
             jc1 == IF updateJoinConditions
                    THEN joinConditions \o left \o <<" ">> \o parts[index + 1]
                         \o <<" ">> \o right
                    ELSE joinConditions
             j == index + 3
         IN IF j <= Len(parts) /\ (parts[j] = W_and \/ parts[j] = W_or)
            THEN extractJoinConditionsFrom(parts, j + 1,
                     IF updateJoinConditions THEN jc1 \o <<" ">> ELSE jc1)
            ELSE extractJoinConditionsFrom(parts, j, jc1)

\* extractJoinConditions: [err, str]
extractJoinConditions(restrictions) ==
    IF restrictions = <<>> THEN [err |-> "", str |-> <<>>]
    ELSE With(extractJoinConditionsFrom(split(restrictions, " ", TRUE), 1, <<>>),
         LAMBDA r :
            IF r.err # "" THEN r
            \* joinConditions.at(joinConditions.length() - 1) of an empty string
            ELSE IF r.str = <<>> THEN [err |-> "out_of_range", str |-> <<>>]
            ELSE IF r.str[Len(r.str)] = " "
                 THEN [err |-> "", str |-> SubSeq(r.str, 1, Len(r.str) - 1)]
            ELSE r)

(***************************************************************************)
(* Result: the executor.                                                   *)
(***************************************************************************)
\* A variant of checkValidReferencedColumn that does not compare the types.
ReferencedColumnNotFound(file, other, colName, dataType) ==
    \/ ~file.exists
    \/ ~hasColumn(other, colName)

\* checkValidReferencedColumn: TRUE when it throws.  other is the schema of
\* the referenced table, read from its file.
InvalidReferencedColumn(file, other, colName, dataType) ==
    \/ ~file.exists
    \/ ~hasColumn(other, colName)
    \/ other[getColumnIndex(other, colName)].colType # dataType

\* checkReferencedColumns: the error thrown, "" for none.
checkReferencedColumns(tables, schema) ==
    IF \E i \in 1..Len(schema) :
          /\ schema[i].references # <<>>
          /\ IF FindChar(schema[i].references, ".") = 0
             THEN \/ ~hasColumn(schema, schema[i].references)
                  \/ schema[getColumnIndex(schema, schema[i].references)].colType
                        # schema[i].colType
             ELSE With(split(schema[i].references, ".", FALSE), LAMBDA parts :
                     InvalidReferencedColumn(
                        OpenTable(tables, parts[1]),
                        Schema(parts[1], OpenTable(tables, parts[1]).header),
                        parts[2], schema[i].colType))
    THEN "InvalidQuery: invalid referenced column"
    ELSE ""

\* executeCreateQuery without the test of std::experimental::filesystem::exists:
\* the std::ofstream truncates the file that is there.
executeCreateQueryTruncating(tables, tableName, header) ==
    IF checkReferencedColumns(tables, Schema(tableName, header)) # ""
    THEN [err |-> "InvalidQuery: invalid referenced column", tables |-> tables]
    ELSE [err |-> "", tables |-> [tables EXCEPT ![tableName] = File(header, <<>>)]]

\* executeCreateQuery: [err, tables]
executeCreateQuery(tables, tableName, header) ==
    IF checkReferencedColumns(tables, Schema(tableName, header)) # ""
    THEN [err |-> "InvalidQuery: invalid referenced column", tables |-> tables]
    ELSE IF tables[tableName].exists
    THEN [err |-> "InvalidQuery: already exists", tables |-> tables]
    ELSE [err |-> "", tables |-> [tables EXCEPT ![tableName] = File(header, <<>>)]]

\* The scan of executeDropQuery over the cells of the row lines from line i
\* on: the first error validateReferencedBy throws, "" for none.
RECURSIVE dropCheckFrom(_, _, _, _, _)

\* One turn of the scan, e being what the cells of the row threw
dropRow(dir, schema, lines, i, pref, e) ==
    IF e # "" THEN e ELSE dropCheckFrom(dir, schema, lines, i + 1, pref)

dropCheckFrom(dir, schema, lines, i, pref) ==
    IF i > Len(lines) THEN ""
    ELSE dropRow(dir, schema, lines, i, pref,
                 deletedRowCheckFrom(dir, ReadRow(schema, lines[i]), 1, pref))

\* std::remove(tablePath) unless the scan threw e: [err, tables]
removeTable(tables, tableName, e) ==
    IF e # "" THEN [err |-> e, tables |-> tables]
    ELSE [err |-> "", tables |-> [tables EXCEPT ![tableName] = NoFile]]

\* executeDropQuery: [err, tables]
executeDropQuery(tables, tmps, tableName, pref) ==
    IF ~tables[tableName].exists
    THEN [err |-> "InvalidQuery: does not exist", tables |-> tables]
    ELSE removeTable(tables, tableName,
             dropCheckFrom(DirFiles(tables, tmps),
                           Schema(tableName, tables[tableName].header),
                           tables[tableName].rows, 1, pref))

\* executeInsertQuery for a query that names every column of the schema,
\* values being its values put in schema order: [err, tables]
executeInsertQuery(tables, tableName, values, ub) ==
    IF ~tables[tableName].exists
    THEN [err |-> "InvalidQuery: does not exist", tables |-> tables]
    ELSE insertRow(tables, tableName, values, ub)

\* table.setRestrictions(restrictions).updateRows(nameValueMap), r being the
\* Restriction made of the restrictions property: [err, tables, tmps]
updateRestricted(tables, tmps, tableName, colName, value, ub, pref, r) ==
    IF r.err # "" THEN [err |-> r.err, tables |-> tables, tmps |-> tmps]
    ELSE updateRows(tables, tmps, tableName, r.restriction, colName, value, ub, pref)

\* executeUpdateQuery for SET colName = value: [err, tables, tmps]
executeUpdateQuery(tables, tmps, tableName, colName, value, restrictions, ub, pref) ==
    IF ~tables[tableName].exists
    THEN [err |-> "InvalidQuery: does not exist", tables |-> tables, tmps |-> tmps]
    ELSE updateRestricted(tables, tmps, tableName, colName, value, ub, pref,
                          parseRestriction(restrictions))

\* table.setRestrictions(restrictions).deleteRows(), r being the Restriction
\* made of the restrictions property: [err, tables, tmps]
deleteRestricted(tables, tmps, tableName, pref, r) ==
    IF r.err # "" THEN [err |-> r.err, tables |-> tables, tmps |-> tmps]
    ELSE deleteRows(tables, tmps, tableName, r.restriction, pref)

\* executeDeleteQuery: [err, tables, tmps]
executeDeleteQuery(tables, tmps, tableName, restrictions, pref) ==
    IF ~tables[tableName].exists
    THEN [err |-> "InvalidQuery: does not exist", tables |-> tables, tmps |-> tmps]
    ELSE deleteRestricted(tables, tmps, tableName, pref, parseRestriction(restrictions))

\* Row::orderAndFilterColumns: [err, row]
orderAndFilterColumns(row, colNames) ==
    IF colNames = <<>> THEN [err |-> "", row |-> row]
    ELSE With([i \in 1..Len(colNames) |-> getColumn(row, colNames[i])], LAMBDA g :
            IF \E i \in 1..Len(colNames) : g[i].err # ""
            THEN [err |-> g[CHOOSE i \in 1..Len(colNames) :
                               /\ g[i].err # ""
                               /\ \A j \in 1..(i - 1) : g[j].err = ""].err,
                  row |-> row]
            ELSE [err |-> "", row |-> [i \in 1..Len(colNames) |-> g[i].col]])

\* Table::filterColumnsByName: the colFilter it leaves in a new Table
filterColumnsByName(colNames) ==
    IF colNames = <<>> \/ colNames = <<"*">> THEN <<>>
    ELSE split(colNames, ",", FALSE)

\* The rows the loop of main pulls from a base table without DISTINCT, from
\* row line i on: [err, out], out being the rows printed.
RECURSIVE pullRowsFrom(_, _, _, _, _, _)

\* A row that passes the restriction, f being what orderAndFilterColumns
\* made of it or threw
printRow(file, schema, restriction, colFilter, i, out, f) ==
    IF f.err # "" THEN [err |-> f.err, out |-> out]
    ELSE pullRowsFrom(file, schema, restriction, colFilter, i + 1,
             Append(out, [k \in 1..Len(f.row) |-> f.row[k].colValue]))

\* One turn of Table::extractRow, a being what restriction.apply(row)
\* returned or threw
extractRow(file, schema, restriction, colFilter, i, out, a) ==
    IF a.err # "" THEN [err |-> a.err, out |-> out]
    ELSE IF ~a.val
    THEN pullRowsFrom(file, schema, restriction, colFilter, i + 1, out)
    ELSE printRow(file, schema, restriction, colFilter, i, out,
                  orderAndFilterColumns(ReadRow(schema, file.rows[i]), colFilter))

pullRowsFrom(file, schema, restriction, colFilter, i, out) ==
    IF i > Len(file.rows) THEN [err |-> "", out |-> out]
    ELSE extractRow(file, schema, restriction, colFilter, i, out,
                    apply(restriction, ReadRow(schema, file.rows[i])))

\* executeSelectQuery and the loop of main for one base table, r being the
\* Restriction made of the restrictions property: [err, out]
executeSelectQuery(tables, tableName, columnNames, r) ==
    IF ~tables[tableName].exists
    THEN [err |-> "InvalidQuery: does not exist", out |-> <<>>]
    ELSE IF r.err # "" THEN [err |-> r.err, out |-> <<>>]
    ELSE pullRowsFrom(tables[tableName], Schema(tableName, tables[tableName].header),
                      r.restriction, filterColumnsByName(columnNames), 1, <<>>)

\* Query::parseSelectQuery for `SELECT columnNames FROM tableName [WHERE
\* restrictions] ;`, j being what extractJoinConditions returned or threw,
\* then the execution of the query: [err, out]
parseSelectQuery(tables, tableName, columnNames, restrictions, j) ==
    IF j.err # "" THEN [err |-> j.err, out |-> <<>>]
    ELSE executeSelectQuery(tables, tableName, columnNames,
                            parseRestriction(restrictions))

\* What main prints for a SELECT on one base table: [err, out]
selectFrom(tables, tableName, columnNames, restrictions) ==
    parseSelectQuery(tables, tableName, columnNames, restrictions,
                     extractJoinConditions(restrictions))

(***************************************************************************)
(* Table: ORDER BY and DISTINCT                                            *)
(***************************************************************************)
\* Column::operator long long: [err, val]
toLongLong(colValue) ==
    With(stoll(colValue), LAMBDA r :
       IF ~r.ok THEN [err |-> "invalid_argument", val |-> 0]
       ELSE IF r.pos # Len(colValue) THEN [err |-> "bad_cast", val |-> 0]
       ELSE [err |-> "", val |-> r.val])

\* Column::operator double, the value scaled by 10^4: [err, val]
toDouble(colValue) ==
    With(stod(colValue), LAMBDA r :
       IF ~r.ok THEN [err |-> "invalid_argument", val |-> 0]
       ELSE [err |-> "", val |-> r.num * Pow10(4 - r.exp)])

\* Column::operator boost::gregorian::date: [err, val]
toDate(colValue) ==
    With(from_string(colValue), LAMBDA r :
       IF ~r.ok THEN [err |-> "bad_lexical_cast", val |-> 0]
       ELSE [err |-> "", val |-> r.val])

\* Column::operator boost::posix_time::ptime, the time of day in seconds
\* (every value is given today's date): [err, val]
toPtime(colValue) ==
    With(split(colValue, ":", FALSE), LAMBDA p :
       IF ~ConvertsToTime(colValue) THEN [err |-> "bad_lexical_cast", val |-> 0]
       ELSE [err |-> "",
             val |-> (digitsValue(p[1], 1, Len(p[1]) + 1, 0) * 60
                      + digitsValue(p[2], 1, Len(p[2]) + 1, 0)) * 60
                     + digitsValue(p[3], 1, Len(p[3]) + 1, 0)])

\* The conversion Column::operator==, operator< and operator> make of a
\* value for the data type of the left column: [err, val]; "none" for a
\* type no branch handles.
convertFor(dataType, colValue) ==
    IF dataType = T_int \/ dataType = T_bigint THEN toLongLong(colValue)
    ELSE IF dataType = T_float \/ dataType = T_double THEN toDouble(colValue)
    ELSE IF dataType = T_date THEN toDate(colValue)
    ELSE IF dataType = T_time THEN toPtime(colValue)
    ELSE [err |-> "none", val |-> 0]

\* Column::operator==, operator< and operator> of col1 against col2, v1 and
\* v2 being the conversions of the two values: [err, eq, lt, gt]
compareConverted(col1, col2, v1, v2) ==
    IF Contains(col1.metadata.colType, T_char)
    THEN [err |-> "", eq |-> col1.colValue = col2.colValue,
          lt |-> StrLess(col1.colValue, col2.colValue),
          gt |-> StrLess(col2.colValue, col1.colValue)]
    ELSE IF v1.err = "none"
    THEN [err |-> "", eq |-> FALSE, lt |-> FALSE, gt |-> FALSE]
    ELSE IF v1.err # "" THEN [err |-> v1.err, eq |-> FALSE, lt |-> FALSE, gt |-> FALSE]
    ELSE IF v2.err # "" THEN [err |-> v2.err, eq |-> FALSE, lt |-> FALSE, gt |-> FALSE]
    ELSE [err |-> "", eq |-> v1.val = v2.val, lt |-> v1.val < v2.val,
          gt |-> v1.val > v2.val]

compareColumns(col1, col2) ==
    compareConverted(col1, col2,
                     convertFor(col1.metadata.colType, col1.colValue),
                     convertFor(col1.metadata.colType, col2.colValue))

\* compareRows from the k-th name of nameVec on: [err, val]
RECURSIVE compareRowsFrom(_, _, _, _, _)

\* One turn of the loop of compareRows, c being the comparison of the two
\* columns
compareRowsOn(row1, row2, nameVec, desc, k, c) ==
    IF c.err # "" THEN [err |-> c.err, val |-> FALSE]
    ELSE IF c.eq THEN compareRowsFrom(row1, row2, nameVec, desc, k + 1)
    ELSE [err |-> "", val |-> IF desc THEN c.gt ELSE c.lt]

\* One turn of the loop, g1 and g2 being what row.getColumn(colName)
\* returned or threw for the two rows
compareRowsAt(row1, row2, nameVec, desc, k, g1, g2) ==
    IF g1.err # "" THEN [err |-> g1.err, val |-> FALSE]
    ELSE IF g2.err # "" THEN [err |-> g2.err, val |-> FALSE]
    ELSE compareRowsOn(row1, row2, nameVec, desc, k, compareColumns(g1.col, g2.col))

compareRowsFrom(row1, row2, nameVec, desc, k) ==
    IF k > Len(nameVec) THEN [err |-> "", val |-> FALSE]
    ELSE compareRowsAt(row1, row2, nameVec, desc, k,
                       getColumn(row1, nameVec[k]), getColumn(row2, nameVec[k]))

\* A variant of compareRows that orders every column by its text.
compareRowsAsText(row1, row2, nameVec, desc) ==
    compareRowsFrom([i \in 1..Len(row1) |->
                        Column(row1[i].colValue, [row1[i].metadata EXCEPT !.colType = T_char])],
                    [i \in 1..Len(row2) |->
                        Column(row2[i].colValue, [row2[i].metadata EXCEPT !.colType = T_char])],
                    nameVec, desc, 1)

compareRows(row1, row2, nameVec, desc) == compareRowsFrom(row1, row2, nameVec, desc, 1)

\* The outcomes std::sort can have on rows, cmp[i][j] being what the
\* comparator returns or throws for rows i and j: it throws what a
\* comparison it makes throws, and otherwise leaves the rows in an order in
\* which no row is before a row it compares greater than (the sort is not
\* stable).  [err, rows]
sortOutcomes(rows, cmp) ==
    IF \E i, j \in 1..Len(rows) : i # j /\ cmp[i][j].err # ""
    THEN {[err |-> cmp[p[1]][p[2]].err, rows |-> <<>>] :
             p \in {q \in (1..Len(rows)) \X (1..Len(rows)) :
                       q[1] # q[2] /\ cmp[q[1]][q[2]].err # ""}}
    ELSE {[err |-> "", rows |-> [k \in 1..Len(rows) |-> rows[p[k]]]] :
             p \in {q \in [1..Len(rows) -> 1..Len(rows)] :
                       /\ \A a, b \in 1..Len(rows) : a # b => q[a] # q[b]
                       /\ \A k \in 1..(Len(rows) - 1) : ~cmp[q[k + 1]][q[k]].val}}

\* Table::orderBy once the rows that pass the restriction are read (r, what
\* the loop `while (*this >> row)` collected or threw): the outcomes
\* [err, file], file being the stream the table reads from afterwards.
orderByRows(file, schema, nameVec, desc, r) ==
    IF r.err # "" THEN {[err |-> r.err, file |-> file]}
    ELSE {[err |-> s.err, file |-> File(file.header, s.rows)] :
             s \in sortOutcomes(r.out,
                      [i \in 1..Len(r.out) |-> [j \in 1..Len(r.out) |->
                          compareRows(ReadRow(schema, r.out[i]),
                                      ReadRow(schema, r.out[j]), nameVec, desc)]])}

\* Table::orderBy: the outcomes [err, file]
orderBy(file, schema, restriction, colNames, desc) ==
    IF colNames = <<>> THEN {[err |-> "", file |-> file]}
    ELSE orderByRows(file, schema, split(colNames, ",", FALSE), desc,
                     pullRowsFrom(file, schema, restriction, <<>>, 1, <<>>))

\* The fingerprint Table::extractRow and JoinedTable::operator>> keep of a
\* row in columnsFound: colName=value; for each of its columns.
RECURSIVE colValues(_)
colValues(row) ==
    IF row = <<>> THEN <<>>
    ELSE Head(row).metadata.colName \o <<"=">> \o Head(row).colValue \o <<";">>
         \o colValues(Tail(row))

\* The rows the loop of main pulls from a base table with DISTINCT, from row
\* line i on, columnsFound being the fingerprints kept so far: [err, out]
RECURSIVE pullDistinctFrom(_, _, _, _, _, _, _)

\* A row that passes the restriction, f being what orderAndFilterColumns
\* made of it or threw
printDistinctRow(file, schema, restriction, colFilter, i, columnsFound, out, f) ==
    IF f.err # "" THEN [err |-> f.err, out |-> out]
    ELSE IF colValues(f.row) \in columnsFound
    THEN pullDistinctFrom(file, schema, restriction, colFilter, i + 1, columnsFound, out)
    ELSE pullDistinctFrom(file, schema, restriction, colFilter, i + 1,
             columnsFound \cup {colValues(f.row)},
             Append(out, [k \in 1..Len(f.row) |-> f.row[k].colValue]))

\* One turn of Table::extractRow, a being what restriction.apply(row)
\* returned or threw
extractDistinctRow(file, schema, restriction, colFilter, i, columnsFound, out, a) ==
    IF a.err # "" THEN [err |-> a.err, out |-> out]
    ELSE IF ~a.val
    THEN pullDistinctFrom(file, schema, restriction, colFilter, i + 1, columnsFound, out)
    ELSE printDistinctRow(file, schema, restriction, colFilter, i, columnsFound, out,
             orderAndFilterColumns(ReadRow(schema, file.rows[i]), colFilter))

pullDistinctFrom(file, schema, restriction, colFilter, i, columnsFound, out) ==
    IF i > Len(file.rows) THEN [err |-> "", out |-> out]
    ELSE extractDistinctRow(file, schema, restriction, colFilter, i, columnsFound, out,
                            apply(restriction, ReadRow(schema, file.rows[i])))

\* A variant of pullOrdered that prints every row that passes the
\* restriction, DISTINCT or not.
pullEveryRow(schema, restriction, distinct, columnNames, o) ==
    IF o.err # "" THEN [err |-> o.err, out |-> <<>>]
    ELSE pullRowsFrom(o.file, schema, restriction, filterColumnsByName(columnNames),
                      1, <<>>)

\* The loop of main on the table executeSelectQuery leaves, o being what
\* orderBy made of its stream or threw: [err, out]
pullOrdered(schema, restriction, distinct, columnNames, o) ==
    IF o.err # "" THEN [err |-> o.err, out |-> <<>>]
    ELSE IF distinct
    THEN pullDistinctFrom(o.file, schema, restriction, filterColumnsByName(columnNames),
                          1, {}, <<>>)
    ELSE pullRowsFrom(o.file, schema, restriction, filterColumnsByName(columnNames),
                      1, <<>>)

\* executeSelectQuery and the loop of main for one base table, r being the
\* Restriction made of the restrictions property: the outcomes [err, out]
executeOrderedSelect(tables, tableName, columnNames, r, orderByNames, desc, distinct) ==
    IF ~tables[tableName].exists
    THEN {[err |-> "InvalidQuery: does not exist", out |-> <<>>]}
    ELSE IF r.err # "" THEN {[err |-> r.err, out |-> <<>>]}
    ELSE {pullOrdered(Schema(tableName, tables[tableName].header), r.restriction,
                      distinct, columnNames, o) :
             o \in orderBy(tables[tableName],
                           Schema(tableName, tables[tableName].header),
                           r.restriction, orderByNames, desc)}

\* What main prints for `SELECT [DISTINCT] columnNames FROM tableName [WHERE
\* restrictions] [ORDER BY orderByNames [DESC]] ;`, j being what
\* extractJoinConditions returned or threw: the outcomes [err, out]
selectOrdered(tables, tableName, columnNames, restrictions, orderByNames, desc, distinct, j) ==
    IF j.err # "" THEN {[err |-> j.err, out |-> <<>>]}
    ELSE executeOrderedSelect(tables, tableName, columnNames,
                              parseRestriction(restrictions), orderByNames, desc, distinct)

(***************************************************************************)
(* JoinedTable: the join of two base tables, read row by row.  The table   *)
(* is a record of its fields: the names of its build and probe tables with *)
(* the position and the hasRows flag of each, columnMap, joinMap, the      *)
(* postfix text of its restriction, colFilter, distinct and columnsFound,   *)
(* and its tableStream: null until orderBy replaces it by a buffer of the  *)
(* sorted row lines, of which the position and the fail bit are kept.      *)
(***************************************************************************)
\* Schema::hasColumn
schemaHasColumn(schema, colName) ==
    IF FindChar(colName, ".") # 0
    THEN With(split(colName, ".", TRUE), LAMBDA parts :
            \E i \in 1..Len(schema) :
               /\ Len(parts) >= 2
               /\ schema[i].colName = parts[2]
               /\ (parts[1] = <<>> \/ schema[i].tableName = parts[1]))
    ELSE \E i \in 1..Len(schema) : schema[i].colName = colName

\* Table::operator>> of a parent table, which has no restriction, no column
\* filter and no DISTINCT: [row, pos, hasRows].  pos counts the row lines
\* read since the last reset.
parentRow(file, schema, pos, hasRows) ==
    IF hasRows /\ pos < Len(file.rows)
    THEN [row |-> ReadRow(schema, file.rows[pos + 1]), pos |-> pos + 1, hasRows |-> TRUE]
    ELSE [row |-> <<>>, pos |-> pos, hasRows |-> FALSE]

\* JoinedTable::assignBuildAndProbeTables: [build, probe], the two names
assignBuildAndProbeTables(tables, table1, table2) ==
    IF Len(tables[table1].rows) > Len(tables[table2].rows)
    THEN [build |-> table2, probe |-> table1]
    ELSE [build |-> table1, probe |-> table2]

\* The loop of JoinedTable::parseJoinCondition from parts[i] on (1-based):
\* [err, columnMap, buildTableColumns]
RECURSIVE parseJoinConditionFrom(_, _, _, _, _)
parseJoinConditionFrom(parts, buildSchema, i, columnMap, buildTableColumns) ==
    IF i > Len(parts)
    THEN [err |-> "", columnMap |-> columnMap, buildTableColumns |-> buildTableColumns]
    ELSE IF i + 2 > Len(parts)
    \* parts[i + 1] or parts[i + 2] is read past the end of the vector
    THEN [err |-> "undefined_behaviour", columnMap |-> columnMap,
          buildTableColumns |-> buildTableColumns]
    ELSE IF parts[i + 1] # <<"=">>
    THEN [err |-> "InvalidQuery: Joins currently only support the = operator",
          columnMap |-> columnMap, buildTableColumns |-> buildTableColumns]
    ELSE IF schemaHasColumn(buildSchema, parts[i])
    THEN parseJoinConditionFrom(parts, buildSchema, i + 3,
             (parts[i + 2] :> parts[i]) @@ columnMap,
             Append(buildTableColumns, parts[i]))
    ELSE parseJoinConditionFrom(parts, buildSchema, i + 3,
             (parts[i] :> parts[i + 2]) @@ columnMap,
             Append(buildTableColumns, parts[i + 2]))

\* The loops of JoinedTable::buildJoinMap from the i-th row line of the
\* build table and the k-th name on: a later row replaces an earlier one
\* under the same key, and a name the row has no column of is skipped.
RECURSIVE buildJoinMapFrom(_, _, _, _, _, _)

\* One turn of the inner loop, c being what row.getColumn(name) returned or
\* threw: [err, joinMap]
buildJoinMapAt(file, schema, colNames, i, k, joinMap, c) ==
    IF c.err = ""
    THEN buildJoinMapFrom(file, schema, colNames, i, k + 1,
             ((colNames[k] \o <<"=">> \o c.col.colValue)
                 :> ReadRow(schema, file.rows[i])) @@ joinMap)
    ELSE IF c.err = "invalid_argument"
    THEN buildJoinMapFrom(file, schema, colNames, i, k + 1, joinMap)
    ELSE [err |-> c.err, joinMap |-> joinMap]

buildJoinMapFrom(file, schema, colNames, i, k, joinMap) ==
    IF i > Len(file.rows) THEN [err |-> "", joinMap |-> joinMap]
    ELSE IF k > Len(colNames)
    THEN buildJoinMapFrom(file, schema, colNames, i + 1, 1, joinMap)
    ELSE buildJoinMapAt(file, schema, colNames, i, k, joinMap,
                        getColumn(ReadRow(schema, file.rows[i]), colNames[k]))

\* buildJoinMap were it to read the rows of the build table from the last
\* to the first, the first row of a key replacing the later ones
buildJoinMapOfFirst(file, schema, colNames) ==
    buildJoinMapFrom([file EXCEPT !.rows = [k \in 1..Len(file.rows) |->
                                               file.rows[Len(file.rows) + 1 - k]]],
                     schema, colNames, 1, 1, <<>>)

\* JoinedTable::buildJoinMap: [err, joinMap]
buildJoinMap(file, schema, colNames) ==
    buildJoinMapFrom(file, schema, colNames, 1, 1, <<>>)

\* The tableStream of a JoinedTable on which orderBy was not called
NoTableStream == [open |-> FALSE, rows |-> <<>>, pos |-> 0, fail |-> FALSE]

\* The JoinedTable the constructor leaves, c being what parseJoinCondition
\* made of the condition and m the map buildJoinMap built
NewJoinedTable(a, c, m) ==
    [build |-> a.build, probe |-> a.probe, buildPos |-> 0, probePos |-> 0,
     buildHasRows |-> TRUE, probeHasRows |-> TRUE,
     columnMap |-> c.columnMap, joinMap |-> m.joinMap,
     restriction |-> <<>>, colFilter |-> <<>>, distinct |-> FALSE,
     columnsFound |-> {}, tableStream |-> NoTableStream]

\* JoinedTable::parseJoinCondition once the triples are read (c):
\* [err, table]
parseJoinCondition(tables, a, c) ==
    IF c.err # ""
    THEN [err |-> c.err, table |-> NewJoinedTable(a, c, [joinMap |-> <<>>])]
    ELSE With(buildJoinMap(tables[a.build],
                           Schema(a.build, tables[a.build].header),
                           c.buildTableColumns),
              LAMBDA m : [err |-> m.err, table |-> NewJoinedTable(a, c, m)])

\* JoinedTable::JoinedTable(table1, table2, joinCondition), a being the
\* build and probe tables it assigned: [err, table]
JoinedTableOf(tables, a, joinCondition) ==
    IF joinCondition = <<>>
    THEN [err |-> "",
          table |-> NewJoinedTable(a, [columnMap |-> <<>>], [joinMap |-> <<>>])]
    ELSE parseJoinCondition(tables, a,
             parseJoinConditionFrom(split(joinCondition, " ", TRUE),
                                    Schema(a.build, tables[a.build].header),
                                    1, <<>>, <<>>))

\* Table::joinTo
joinTo(tables, table1, table2, joinCondition) ==
    JoinedTableOf(tables, assignBuildAndProbeTables(tables, table1, table2),
                  joinCondition)

\* JoinedTable::operator bool
joinedHasRows(table) ==
    \/ table.tableStream.open /\ ~table.tableStream.fail
    \/ table.buildHasRows /\ table.probeHasRows

\* Row::merge: [err, row]
merge(row, otherRow) ==
    IF row = <<>> THEN [err |-> "logic_error: Row not initialized", row |-> row]
    ELSE [err |-> "", row |-> row \o otherRow]

\* Row::fillBlank(count) of a row of the schema
fillBlank(schema, count) == [i \in 1..count |-> Column(<<>>, schema[i])]

\* The name JoinedTable::extractRowJoined looks a column up by in columnMap
mappedName(columnMap, col) ==
    IF col.metadata.colName \in DOMAIN columnMap THEN col.metadata.colName
    ELSE col.metadata.tableName \o <<".">> \o col.metadata.colName

\* JoinedTable::extractRowJoined: [err, row]
extractRowJoined(row, columnMap, joinMap, buildSchema) ==
    With({i \in 1..Len(row) :
             /\ mappedName(columnMap, row[i]) \in DOMAIN columnMap
             /\ (columnMap[mappedName(columnMap, row[i])] \o <<"=">> \o row[i].colValue)
                   \in DOMAIN joinMap},
         LAMBDA hits :
            IF hits = {}
            THEN merge(row, fillBlank(buildSchema, Len(buildSchema)))
            ELSE merge(row, joinMap[columnMap[mappedName(columnMap,
                                row[CHOOSE i \in hits : \A j \in hits : i <= j])]
                            \o <<"=">>
                            \o row[CHOOSE i \in hits : \A j \in hits : i <= j].colValue]))

\* The pairing of a probe row with the next row of the build table when
\* joinMap is empty, r being what `*buildTable >> row2` read and r2 what it
\* reads after a reset: [err, table, row]
nextBuildRow(table, row, r, r2) ==
    IF r.hasRows
    THEN With(merge(row, r.row), LAMBDA m :
            [err |-> m.err, row |-> m.row,
             table |-> [table EXCEPT !.buildPos = r.pos, !.buildHasRows = TRUE]])
    ELSE With(merge(row, r2.row), LAMBDA m :
            [err |-> m.err, row |-> m.row,
             table |-> [table EXCEPT !.buildPos = r2.pos,
                                     !.buildHasRows = r2.hasRows]])

\* The body of the loop of JoinedTable::extractRow after the probe row is
\* read: [err, table, row]
joinedRow(tables, table, row) ==
    IF DOMAIN table.joinMap = {}
    THEN nextBuildRow(table, row,
             parentRow(tables[table.build],
                       Schema(table.build, tables[table.build].header),
                       table.buildPos, table.buildHasRows),
             parentRow(tables[table.build],
                       Schema(table.build, tables[table.build].header), 0, TRUE))
    ELSE With(extractRowJoined(row, table.columnMap, table.joinMap,
                               Schema(table.build, tables[table.build].header)),
              LAMBDA m : [err |-> m.err, row |-> m.row, table |-> table])

\* JoinedTable::extractRow: [err, table, row]
RECURSIVE joinedExtractRow(_, _)

\* The end of a turn of the loop, a being what restriction.apply(row)
\* returned or threw
joinedRestricted(tables, j, a) ==
    IF a.err # "" THEN [err |-> a.err, table |-> j.table, row |-> j.row]
    ELSE IF a.val THEN j
    ELSE joinedExtractRow(tables, j.table)

\* A turn of the loop once the rows are merged (j)
joinedMerged(tables, j) ==
    IF j.err # "" THEN j
    ELSE joinedRestricted(tables, j, apply(j.table.restriction, j.row))

\* A turn of the loop, p being what `*probeTable >> row` read
joinedProbed(tables, table, p) ==
    IF ~p.hasRows
    THEN [err |-> "", row |-> <<>>, table |-> [table EXCEPT !.probeHasRows = FALSE]]
    ELSE joinedMerged(tables,
             joinedRow(tables, [table EXCEPT !.probePos = p.pos], p.row))

\* `row = Row(schema); *tableStream >> row;` on the buffer orderBy left:
\* the next line read with the merged schema, or a row of no column and the
\* fail bit when no line is left.  [table, row]
readBuffered(tables, table) ==
    IF ~table.tableStream.fail /\ table.tableStream.pos < Len(table.tableStream.rows)
    THEN [table |-> [table EXCEPT !.tableStream.pos = @ + 1],
          row |-> ReadRow(Schema(table.probe, tables[table.probe].header)
                             \o Schema(table.build, tables[table.build].header),
                          table.tableStream.rows[table.tableStream.pos + 1])]
    ELSE [table |-> [table EXCEPT !.tableStream.fail = TRUE], row |-> <<>>]

\* The turn of the loop when tableStream is set: `continue` leads to the
\* test `while (!restriction.apply(row))`, b being what was read and a what
\* apply returned or threw for it.  Once the stream has failed every turn
\* reads the same row of no column, so a false test is never left.
joinedBuffered(tables, b, a) ==
    IF a.err # "" THEN [err |-> a.err, table |-> b.table, row |-> b.row]
    ELSE IF a.val THEN [err |-> "", table |-> b.table, row |-> b.row]
    ELSE IF b.table.tableStream.fail
    THEN [err |-> "no_return", table |-> b.table, row |-> b.row]
    ELSE joinedExtractRow(tables, b.table)

\* The turn of the loop on the buffer once the line is read (b)
joinedBufferedRow(tables, b) ==
    joinedBuffered(tables, b, apply(b.table.restriction, b.row))

joinedExtractRow(tables, table) ==
    IF table.tableStream.open
    THEN joinedBufferedRow(tables, readBuffered(tables, table))
    ELSE joinedProbed(tables, table,
             parentRow(tables[table.probe],
                       Schema(table.probe, tables[table.probe].header),
                       table.probePos, table.probeHasRows))

\* JoinedTable::operator>>: [err, table, row]
RECURSIVE joinedPull(_, _)

\* JoinedTable::operator>> once the row is extracted and its columns are
\* filtered (f is what orderAndFilterColumns returned or threw)
joinedFiltered(tables, j, f) ==
    IF f.err # "" THEN [err |-> f.err, table |-> j.table, row |-> j.row]
    ELSE IF ~j.table.distinct THEN [err |-> "", table |-> j.table, row |-> f.row]
    ELSE IF colValues(f.row) \notin j.table.columnsFound
    THEN [err |-> "", row |-> f.row,
          table |-> [j.table EXCEPT !.columnsFound = @ \cup {colValues(f.row)}]]
    ELSE joinedPull(tables, j.table)

\* JoinedTable::operator>> once extractRow has returned or thrown (j)
joinedExtracted(tables, j) ==
    IF j.err # "" THEN j
    ELSE joinedFiltered(tables, j,
             IF j.row = <<>> THEN [err |-> "", row |-> j.row]
             ELSE orderAndFilterColumns(j.row, j.table.colFilter))

joinedPull(tables, table) == joinedExtracted(tables, joinedExtractRow(tables, table))

\* The loop `while (*this >> row) rows.push_back(row)` of
\* JoinedTable::orderBy: [err, table, rows]
RECURSIVE joinedDrain(_, _, _)

\* One turn of the loop, j being what operator>> returned or threw
joinedDrained(tables, j, rows) ==
    IF j.err # "" THEN [err |-> j.err, table |-> j.table, rows |-> rows]
    ELSE IF joinedHasRows(j.table)
    THEN joinedDrain(tables, j.table, Append(rows, j.row))
    ELSE [err |-> "", table |-> j.table, rows |-> rows]

joinedDrain(tables, table, rows) ==
    joinedDrained(tables, joinedPull(tables, table), rows)

\* JoinedTable::orderBy once the join is drained (d): std::sort and the
\* stringstream that becomes tableStream, one line per row and no schema
\* line.  The outcomes [err, table]
joinedSorted(nameVec, desc, d) ==
    IF d.err # "" THEN {[err |-> d.err, table |-> d.table]}
    ELSE {[err |-> s.err,
           table |-> IF s.err # "" THEN d.table
                     ELSE [d.table EXCEPT !.tableStream =
                              [open |-> TRUE, pos |-> 0, fail |-> FALSE,
                               rows |-> [k \in 1..Len(s.rows) |->
                                           [c \in 1..Len(s.rows[k]) |->
                                               s.rows[k][c].colValue]]]]] :
             s \in sortOutcomes(d.rows,
                      [i \in 1..Len(d.rows) |-> [j \in 1..Len(d.rows) |->
                          compareRows(d.rows[i], d.rows[j], nameVec, desc)]])}

\* JoinedTable::orderBy on the table executeSelectQuery holds (j): the
\* outcomes [err, table]
joinedOrderBy(tables, j, colNames, desc) ==
    IF j.err # "" \/ colNames = <<>> THEN {j}
    ELSE joinedSorted(split(colNames, ",", FALSE), desc,
                      joinedDrain(tables, j.table, <<>>))

\* executeSelectQuery for two tables once the join is made (j) and the
\* Restriction of setRestrictions is made of the restrictions property (r):
\* [err, table]
joinedRestrictedBy(j, r) ==
    IF j.err # "" THEN j
    ELSE [err |-> r.err, table |-> [j.table EXCEPT !.restriction = r.restriction]]

\* filterDistinct and filterColumnsByName on what orderBy returned (o)
joinedFilteredBy(o, distinct, columnNames) ==
    IF o.err # "" THEN o
    ELSE [err |-> "",
          table |-> [o.table EXCEPT !.distinct = distinct,
                                    !.colFilter = filterColumnsByName(columnNames)]]

\* executeSelectQuery for `FROM table1 , table2`: the outcomes [err, table]
joinedSelect(tables, table1, table2, joinConditions, restrictions, orderByNames, desc, distinct, columnNames) ==
    IF ~tables[table1].exists \/ ~tables[table2].exists
    THEN {[err |-> "InvalidQuery: does not exist", table |-> <<>>]}
    ELSE {joinedFilteredBy(o, distinct, columnNames) :
             o \in joinedOrderBy(tables,
                       joinedRestrictedBy(joinTo(tables, table1, table2, joinConditions),
                                          parseRestriction(restrictions)),
                       orderByNames, desc)}

\* A variant of the modifiers of a joined table that reads a row of the
\* probe table before throwing.
joinedModifierReading(table) ==
    [err |-> "logic_error: Cannot insert rows in a joined table",
     table |-> [table EXCEPT !.probePos = @ + 1]]

\* JoinedTable::insertRow, updateRows, deleteRows: the logic_error thrown
\* [err, table]
joinedInsertRow(table) ==
    [err |-> "logic_error: Cannot insert rows in a joined table", table |-> table]
joinedUpdateRows(table) ==
    [err |-> "logic_error: Cannot update rows in a joined table", table |-> table]
joinedDeleteRows(table) ==
    [err |-> "logic_error: Cannot delete rows in a joined table", table |-> table]

(***************************************************************************)
(* Query: CREATE TABLE.  The query text is the one formatQuery leaves:     *)
(* every bracket and comma stands between two spaces.                      *)
(***************************************************************************)
W_table == <<"t", "a", "b", "l", "e">>
W_primary == <<"p", "r", "i", "m", "a", "r", "y">>
W_key == <<"k", "e", "y">>
W_not == <<"n", "o", "t">>
W_references == <<"r", "e", "f", "e", "r", "e", "n", "c", "e", "s">>

\* parts[index] of the source, whose indices start at 0
part(parts, index) == parts[index + 1]

\* checkDataType: the error thrown, "" for none.  The regular expression is
\* char\(\d+\)|varchar\(\d+\).
checkDataType(dataType) ==
    IF dataType \in {T_int, T_bigint, T_float, T_double, T_date, T_time} THEN ""
    ELSE IF \E i \in 1..Len(dataType) :
               /\ dataType[i] = "("
               /\ SubSeq(dataType, 1, i - 1) \in {T_char, T_varchar}
               /\ dataType[Len(dataType)] = ")"
               /\ AllDigits(SubSeq(dataType, i + 1, Len(dataType) - 1))
    THEN ""
    ELSE "InvalidQuery: Invalid data type"

\* extractColumnOptions: [err, index, references, notNull]
RECURSIVE extractColumnOptions(_, _, _, _)
extractColumnOptions(parts, index, references, notNull) ==
    IF ~(part(parts, index) # <<",">> /\ index < Len(parts) - 2)
    THEN [err |-> "", index |-> index, references |-> references,
          notNull |-> notNull]
    ELSE IF toLowercase(part(parts, index)) = W_not
    THEN IF toLowercase(part(parts, index + 1)) = W_null
         THEN extractColumnOptions(parts, index + 2, references, TRUE)
         ELSE [err |-> "InvalidQuery: Expected 'null'", index |-> index,
               references |-> references, notNull |-> notNull]
    ELSE IF toLowercase(part(parts, index)) = W_references
    THEN IF part(parts, index + 1) = <<"(">> /\ part(parts, index + 3) = <<")">>
         THEN extractColumnOptions(parts, index + 4, part(parts, index + 2), notNull)
         ELSE [err |-> "InvalidQuery: Missing brackets", index |-> index,
               references |-> references, notNull |-> notNull]
    ELSE [err |-> "InvalidQuery: Unexpected symbol", index |-> index,
          references |-> references, notNull |-> notNull]

\* The end of createColumnMetadata, o being what extractColumnOptions
\* returned: [err, index, metadata]
columnMetadataOf(tableName, colName, dataType, o) ==
    IF o.err # "" THEN [err |-> o.err, index |-> o.index, metadata |-> NoMetadata]
    ELSE [err |-> "", index |-> o.index + 1,
          metadata |-> ColumnMetadata(colName, tableName, dataType, o.references,
                                      FALSE, o.notNull)]

\* createColumnMetadata once the data type is put together, index being the
\* index after it: [err, index, metadata]
columnOfType(tableName, parts, index, colName, dataType) ==
    IF checkDataType(dataType) # ""
    THEN [err |-> checkDataType(dataType), index |-> index, metadata |-> NoMetadata]
    ELSE columnMetadataOf(tableName, colName, dataType,
                          extractColumnOptions(parts, index, <<>>, FALSE))

\* createColumnMetadata: [err, index, metadata]
createColumnMetadata(tableName, parts, index) ==
    IF part(parts, index + 2) = <<"(">>
    THEN columnOfType(tableName, parts, index + 5, part(parts, index),
                      toLowercase(part(parts, index + 1)) \o part(parts, index + 2)
                         \o part(parts, index + 3) \o part(parts, index + 4))
    ELSE columnOfType(tableName, parts, index + 2, part(parts, index),
                      toLowercase(part(parts, index + 1)))

\* Query::parsePrimaryKey: [err, index, metadataVec]
parsePrimaryKey(parts, metadataVec, index) ==
    IF toLowercase(part(parts, index + 1)) # W_key
    THEN [err |-> "InvalidQuery: Expected 'key' after 'primary'", index |-> index,
          metadataVec |-> metadataVec]
    ELSE IF part(parts, index + 2) # <<"(">> \/ part(parts, index + 4) # <<")">>
    THEN [err |-> "InvalidQuery: Expected parentheses", index |-> index,
          metadataVec |-> metadataVec]
    ELSE [err |-> "",
          index |-> index + (IF part(parts, index + 5) = <<",">> THEN 6 ELSE 5),
          metadataVec |->
             [i \in 1..Len(metadataVec) |->
                 IF metadataVec[i].colName = part(parts, index + 3)
                 THEN [metadataVec[i] EXCEPT !.primaryKey = TRUE, !.notNull = TRUE]
                 ELSE metadataVec[i]]]

\* The while loop of parseCreateQuery from index on: [err, metadataVec]
RECURSIVE parseColumnsFrom(_, _, _, _)

\* One turn of the loop after parsePrimaryKey returned p
afterPrimaryKey(tableName, parts, p) ==
    IF p.err # "" THEN [err |-> p.err, metadataVec |-> p.metadataVec]
    ELSE parseColumnsFrom(tableName, parts, p.index, p.metadataVec)

\* One turn of the loop after createColumnMetadata returned c
afterColumn(tableName, parts, metadataVec, c) ==
    IF c.err # "" THEN [err |-> c.err, metadataVec |-> metadataVec]
    ELSE parseColumnsFrom(tableName, parts, c.index, Append(metadataVec, c.metadata))

parseColumnsFrom(tableName, parts, index, metadataVec) ==
    IF ~(index < Len(parts) - 2) THEN [err |-> "", metadataVec |-> metadataVec]
    ELSE IF toLowercase(part(parts, index)) = W_primary
    THEN afterPrimaryKey(tableName, parts, parsePrimaryKey(parts, metadataVec, index))
    ELSE afterColumn(tableName, parts, metadataVec,
                     createColumnMetadata(tableName, parts, index))

\* ensureValidMetadata for the columns of metadataVec from the i-th on: the
\* error thrown, "" for none.
RECURSIVE ensureValidMetadata(_, _, _, _)
ensureValidMetadata(metadataVec, i, colNames, primaryKeyFound) ==
    IF i > Len(metadataVec) THEN ""
    ELSE IF metadataVec[i].primaryKey /\ primaryKeyFound
    THEN "InvalidQuery: Table cannot have more than one primary key"
    ELSE IF metadataVec[i].colName \in colNames
    THEN "InvalidQuery: Column names must be unique"
    ELSE ensureValidMetadata(metadataVec, i + 1,
                             colNames \cup {metadataVec[i].colName},
                             primaryKeyFound \/ metadataVec[i].primaryKey)

\* os << std::quoted(s): the text between double quotes, a backslash put
\* before every double quote and every backslash of it.
RECURSIVE escapedText(_)
escapedText(s) ==
    IF s = <<>> THEN <<>>
    ELSE (IF Head(s) = "\"" \/ Head(s) = "\\" THEN <<"\\", Head(s)>> ELSE <<Head(s)>>)
         \o escapedText(Tail(s))

quoted(s) == <<"\"">> \o escapedText(s) \o <<"\"">>

\* operator<<(ostream, ColumnMetadata) under std::boolalpha
WriteMetadata(metadata) ==
    quoted(metadata.colName) \o <<" ">> \o quoted(metadata.colType) \o <<" ">>
    \o quoted(metadata.references) \o <<" ">>
    \o (IF metadata.primaryKey THEN W_true ELSE W_false) \o <<" ">>
    \o (IF metadata.notNull THEN W_true ELSE W_false)

\* Schema::toString: the columns, a tab between two of them
RECURSIVE toString(_)
toString(metadataVec) ==
    IF metadataVec = <<>> THEN <<>>
    ELSE IF Len(metadataVec) = 1 THEN WriteMetadata(metadataVec[1])
    ELSE WriteMetadata(metadataVec[1]) \o <<"\t">> \o toString(Tail(metadataVec))

\* is >> std::quoted(str) from index i of s on, once the leading spaces are
\* skipped and the opening quote is read: the text up to the closing quote,
\* a backslash giving the character after it.  [str, next]
RECURSIVE readQuotedFrom(_, _, _)
readQuotedFrom(s, i, str) ==
    IF i > Len(s) THEN [str |-> str, next |-> i]
    ELSE IF s[i] = "\"" THEN [str |-> str, next |-> i + 1]
    ELSE IF s[i] = "\\" /\ i < Len(s) THEN readQuotedFrom(s, i + 2, Append(str, s[i + 1]))
    ELSE readQuotedFrom(s, i + 1, Append(str, s[i]))

\* is >> str of an unquoted text: the characters up to the next space
RECURSIVE readWordFrom(_, _, _)
readWordFrom(s, i, str) ==
    IF i > Len(s) \/ s[i] = " " THEN [str |-> str, next |-> i]
    ELSE readWordFrom(s, i + 1, Append(str, s[i]))

\* is >> std::quoted(str) from index i on: [str, next]
readQuoted(s, i) ==
    IF skipSpaces(s, i) <= Len(s) /\ s[skipSpaces(s, i)] = "\""
    THEN readQuotedFrom(s, skipSpaces(s, i) + 1, <<>>)
    ELSE readWordFrom(s, skipSpaces(s, i), <<>>)

\* is >> std::boolalpha >> flag from index i on: [val, next]
readBool(s, i) ==
    [val |-> readWordFrom(s, skipSpaces(s, i), <<>>).str = W_true,
     next |-> readWordFrom(s, skipSpaces(s, i), <<>>).next]

\* operator>>(istream, ColumnMetadata) under std::boolalpha on the text of
\* one column: the five tokens of the column, as the header of a file
\* holds them.
readFlags(colName, colType, references, p, n) ==
    HeaderColumn(colName.str, colType.str, references.str, p.val, n.val)

readNotNull(s, colName, colType, references, p) ==
    readFlags(colName, colType, references, p, readBool(s, p.next))

readPrimaryKey(s, colName, colType, references) ==
    readNotNull(s, colName, colType, references, readBool(s, references.next))

readReferences(s, colName, colType) ==
    readPrimaryKey(s, colName, colType, readQuoted(s, colType.next))

readColType(s, colName) == readReferences(s, colName, readQuoted(s, colName.next))

ReadMetadata(s) == readColType(s, readQuoted(s, 1))

\* The header of the file whose first line is s: the loop of
\* Schema::Schema(tableName, s) over the tab-separated texts of the line.
metadataOfStrings(metadataStrings) ==
    [i \in 1..Len(metadataStrings) |-> ReadMetadata(metadataStrings[i])]

HeaderOfLine(s) == metadataOfStrings(split(s, "\t", FALSE))

\* The end of parseCreateQuery, e being what ensureValidMetadata threw:
\* [err, tableName, schema]
schemaProperty(tableName, metadataVec, e) ==
    IF e # "" THEN [err |-> e, tableName |-> tableName, schema |-> <<>>]
    ELSE [err |-> "", tableName |-> tableName, schema |-> toString(metadataVec)]

\* parseCreateQuery after its while loop, which returned c
parsedColumns(tableName, c) ==
    IF c.err # "" THEN [err |-> c.err, tableName |-> tableName, schema |-> <<>>]
    ELSE schemaProperty(tableName, c.metadataVec,
                        ensureValidMetadata(c.metadataVec, 1, {}, FALSE))

\* parseCreateQuery on the parts of the query
parseCreateParts(parts) ==
    IF Len(parts) < 8
    THEN [err |-> "InvalidQuery: Malformed query", tableName |-> <<>>, schema |-> <<>>]
    ELSE IF \/ toLowercase(part(parts, 1)) # W_table
            \/ part(parts, 3) # <<"(">>
            \/ part(parts, Len(parts) - 2) # <<")">>
    THEN [err |-> "InvalidQuery: Malformed query", tableName |-> part(parts, 2),
          schema |-> <<>>]
    ELSE parsedColumns(part(parts, 2),
                       parseColumnsFrom(part(parts, 2), parts, 4, <<>>))

\* Query::parseCreateQuery: [err, tableName, schema], schema being the
\* serialized schema property
parseCreateQuery(queryString) == parseCreateParts(split(queryString, " ", FALSE))

\* Query query(queryString); query.execute() of main for a CREATE query, q
\* being the parsed query: [err, tables]
executeCreate(tables, q) ==
    IF q.err # "" THEN [err |-> q.err, tables |-> tables]
    ELSE executeCreateQuery(tables, q.tableName, HeaderOfLine(q.schema))

(***************************************************************************)
(* The client: the tables it creates and the queries it sends.             *)
(***************************************************************************)
Name_t == <<"t">>
Name_k == <<"k">>
Name_u == <<"u">>
Name_s == <<"s">>
Name_n == <<"n">>
Col_id == <<"i", "d">>
Col_name == <<"n", "a", "m", "e">>
Col_a == <<"a">>
Col_b == <<"b">>
Col_v == <<"v">>
Col_zz == <<"z", "z">>
Ref_t_id == <<"t", ".", "i", "d">>

TableNames == {Name_t, Name_k, Name_u, Name_s, Name_n}

\* The schema property parseCreateQuery builds for the CREATE of each table:
\*   CREATE TABLE t ( id int , name varchar ( 3 ) , PRIMARY KEY ( id ) ) ;
\*   CREATE TABLE k ( id varchar ( 2 ) , PRIMARY KEY ( id ) ) ;
\*   CREATE TABLE u ( a int REFERENCES ( t.id ) , b int REFERENCES ( t.id ) ) ;
\*   CREATE TABLE s ( id int REFERENCES ( id ) ) ;
\*   CREATE TABLE n ( v bigint ) ;
Header(tableName) ==
    IF tableName = Name_t
    THEN <<HeaderColumn(Col_id, T_int, <<>>, TRUE, TRUE),
           HeaderColumn(Col_name, VarcharType(3), <<>>, FALSE, FALSE)>>
    ELSE IF tableName = Name_k
    THEN <<HeaderColumn(Col_id, VarcharType(2), <<>>, TRUE, TRUE)>>
    ELSE IF tableName = Name_u
    THEN <<HeaderColumn(Col_a, T_int, Ref_t_id, FALSE, FALSE),
           HeaderColumn(Col_b, T_int, Ref_t_id, FALSE, FALSE)>>
    ELSE IF tableName = Name_s
    THEN <<HeaderColumn(Col_id, T_int, Col_id, FALSE, FALSE)>>
    ELSE <<HeaderColumn(Col_v, T_bigint, <<>>, FALSE, FALSE)>>

\* The sets of tables a client keeps side by side in the directory.
Databases == {{Name_t, Name_u}, {Name_k}, {Name_s}, {Name_n}}

\* The value literals of the INSERT queries, as Query leaves them in columnValues
\* (`null` is replaced by NULL_VALUE when the query is parsed).
Literals(tableName, colName) ==
    IF tableName = Name_t /\ colName = Col_id
    THEN {<<"1">>, <<"2">>, <<"x">>, NULL_VALUE}
    ELSE IF tableName = Name_t
    THEN {<<"\"", "a", "b", "c", "\"">>}
    ELSE IF tableName = Name_k
    THEN {<<"\"", "a", "\"">>, <<"\"", "a", "b", "c", "\"">>, <<"\"", "\"">>, NULL_VALUE}
    ELSE IF tableName = Name_u /\ colName = Col_a
    THEN {<<"1">>, NULL_VALUE}
    ELSE IF tableName = Name_u
    THEN {<<"1">>}
    ELSE IF tableName = Name_s
    THEN {<<"1">>}
    ELSE {<<"1">>, <<"x">>}

Where_id_eq_1 == <<"i", "d", " ", "=", " ", "1">>
Where_id_gt_0 == <<"i", "d", " ", ">", " ", "0">>
Where_zz_eq_1 == <<"z", "z", " ", "=", " ", "1">>
Where_id_eq_id == <<"i", "d", " ", "=", " ", "i", "d">>
Where_a_eq_1 == <<"a", " ", "=", " ", "1">>
Where_id_eq_a == <<"i", "d", " ", "=", " ", "\"", "a", "\"">>

\* The restrictions property of the UPDATE and DELETE queries
Wheres(tableName) ==
    IF tableName = Name_t THEN {<<>>, Where_id_eq_1, Where_id_gt_0, Where_zz_eq_1}
    ELSE IF tableName = Name_k THEN {<<>>, Where_id_eq_a}
    ELSE IF tableName = Name_u THEN {<<>>, Where_a_eq_1}
    ELSE {<<>>}

\* The restrictions property of the SELECT queries
SelectWheres(tableName) ==
    IF tableName = Name_t THEN {<<>>, Where_id_eq_1, Where_id_eq_id}
    ELSE {<<>>}

\* The columnNames property of the SELECT queries
SelectColumns(tableName) ==
    IF tableName = Name_t THEN {<<"*">>, Col_name} ELSE {<<"*">>}

\* The value literals of the SET clause of the UPDATE queries
UpdateLiterals(tableName, colName) ==
    IF tableName = Name_t /\ colName = Col_id
    THEN {<<"1">>, <<"3">>, <<"x">>, NULL_VALUE}
    ELSE Literals(tableName, colName)

\* The SET column of the UPDATE queries
UpdateColumns(tableName) ==
    {Header(tableName)[i].colName : i \in 1..Len(Header(tableName))}
    \cup (IF tableName = Name_t THEN {Col_zz} ELSE {})

\* The columnValues of the INSERT queries, in schema order
InsertValues(tableName) ==
    {v \in [1..Len(Header(tableName)) ->
               UNION {Literals(tableName, Header(tableName)[i].colName) :
                         i \in 1..Len(Header(tableName))}] :
        \A i \in 1..Len(Header(tableName)) :
           v[i] \in Literals(tableName, Header(tableName)[i].colName)}

\* The outcomes the out-of-bounds read of validateReferencedColumn can have
\* in a query on a table: the read is made only for a column whose reference
\* names no table, and without it nothing depends on the outcome.
ReadOutcomes(tableName) ==
    IF \E i \in 1..Len(Header(tableName)) :
          /\ Header(tableName)[i].references # <<>>
          /\ FindChar(Header(tableName)[i].references, ".") = 0
    THEN OutOfBoundsOutcomes
    ELSE {"garbage"}

\* The errors a scan of the directory can meet first, whatever the files
\* throw: getColumn throws only on a row line that lacks the column.
Favoured(dir) ==
    IF \E f \in dir : \E i \in 1..Len(f.file.rows) :
          Len(f.file.rows[i]) < Len(f.file.header)
    THEN {Referenced, "invalid_argument"}
    ELSE {Referenced}

(***************************************************************************)
(* The state: the table files and temp files of ./tables, the last query   *)
(* main read with what it printed for it, and a Restriction object taken   *)
(* on its own (its infix clause, the row it is applied to, the postfix     *)
(* text it holds and what apply returned), and the table stream of a       *)
(* SELECT taken on its own: the ORDER BY and DISTINCT properties of the    *)
(* query and, for a join, the JoinedTable with the last method called on   *)
(* it, what the call threw and the rows pulled from it so far.             *)
(***************************************************************************)
VARIABLES tables, tmps, last, where, stream

vars == <<tables, tmps, last, where, stream>>

\* No Restriction object under study
NoWhere ==
    [pc |-> "none", clause |-> <<>>, row |-> <<>>, restriction |-> <<>>,
     err |-> "", val |-> FALSE]

\* No table stream under study
NoStream ==
    [pc |-> "none", orderBy |-> <<>>, desc |-> FALSE, distinct |-> FALSE,
     table |-> <<>>, call |-> "", thrown |-> "", out |-> <<>>]

\* type and tableName of the query, its restrictions and columnNames
\* properties (SELECT, UPDATE, DELETE), the exception main caught ("" for
\* none) and the rows it printed.
Last(type, tableName, restrictions, columnNames, err, out) ==
    [type |-> type, tableName |-> tableName, restrictions |-> restrictions,
     columnNames |-> columnNames, err |-> err, out |-> out]

Init ==
    /\ tables = [n \in TableNames |-> NoFile]
    /\ tmps = [n \in TableNames |-> NoFile]
    /\ last = Last("", <<>>, <<>>, <<>>, "", <<>>)
    /\ where = NoWhere
    /\ stream = NoStream

Existing == {n \in TableNames : tables[n].exists}

\* The tables a query can name: those of the database the client is working
\* on, any table while the directory is empty.
Addressed == {n \in TableNames : \E db \in Databases : Existing \cup {n} \subseteq db}

Create(n) ==
    /\ n \in Addressed
    /\ \E r \in {executeCreateQuery(tables, n, Header(n))} :
          /\ tables' = r.tables
          /\ last' = Last("create", n, <<>>, <<>>, r.err, <<>>)
    /\ UNCHANGED <<tmps, where, stream>>

\* pref, in Drop, Update and Delete, is the error the order of the directory
\* listing favours.
Drop(n) ==
    /\ n \in Addressed
    /\ \E pref \in Favoured(DirFiles(tables, tmps)) :
          \E r \in {executeDropQuery(tables, tmps, n, pref)} :
             /\ tables' = r.tables
             /\ last' = Last("drop", n, <<>>, <<>>, r.err, <<>>)
    /\ UNCHANGED <<tmps, where, stream>>

Insert(n, values, ub) ==
    /\ n \in Addressed
    /\ Len(tables[n].rows) < MaxRows
    /\ \E r \in {executeInsertQuery(tables, n, values, ub)} :
          /\ tables' = r.tables
          /\ last' = Last("insert", n, <<>>, <<>>, r.err, <<>>)
    /\ UNCHANGED <<tmps, where, stream>>

Update(n, colName, value, restrictions, ub) ==
    /\ n \in Addressed
    /\ \E pref \in Favoured(DirFiles(tables, tmps)) :
          \E r \in {executeUpdateQuery(tables, tmps, n, colName, value,
                                       restrictions, ub, pref)} :
             /\ tables' = r.tables
             /\ tmps' = r.tmps
             /\ last' = Last("update", n, restrictions, <<>>, r.err, <<>>)
    /\ UNCHANGED <<where, stream>>

Delete(n, restrictions) ==
    /\ n \in Addressed
    /\ \E pref \in Favoured(DirFiles(tables, tmps)) :
          \E r \in {executeDeleteQuery(tables, tmps, n, restrictions, pref)} :
             /\ tables' = r.tables
             /\ tmps' = r.tmps
             /\ last' = Last("delete", n, restrictions, <<>>, r.err, <<>>)
    /\ UNCHANGED <<where, stream>>

Select(n, columnNames, restrictions) ==
    /\ n \in Addressed
    /\ \E r \in {selectFrom(tables, n, columnNames, restrictions)} :
          last' = Last("select", n, restrictions, columnNames, r.err, r.out)
    /\ UNCHANGED <<tables, tmps, where, stream>>

Next ==
    \/ \E n \in TableNames : Create(n)
    \/ \E n \in TableNames : Drop(n)
    \/ \E n \in TableNames :
          \E values \in InsertValues(n), ub \in ReadOutcomes(n) : Insert(n, values, ub)
    \/ \E n \in TableNames :
          \E colName \in UpdateColumns(n), restrictions \in Wheres(n), ub \in ReadOutcomes(n) :
             \E value \in UpdateLiterals(n, colName) :
                Update(n, colName, value, restrictions, ub)
    \/ \E n \in TableNames :
          \E restrictions \in Wheres(n) : Delete(n, restrictions)
    \/ \E n \in TableNames :
          \E columnNames \in SelectColumns(n), restrictions \in SelectWheres(n) :
             Select(n, columnNames, restrictions)

Spec == Init /\ [][Next]_vars

(***************************************************************************)
(* A Restriction on its own: the constructor compiles an infix WHERE       *)
(* clause to postfix, apply evaluates the postfix on a row.                *)
(***************************************************************************)
\* The columns the comparison atoms read, in the order the atoms of a clause
\* use them
AtomColumns == <<Col_a, Col_b, <<"c">>, <<"d">>, <<"e">>>>

\* The words of the atom `column = 1` on column k
AtomWords(k) == <<AtomColumns[k], Op_eq, <<"1">>>>

\* The well-formed clauses, as sequences of words, of exactly n atoms on the
\* columns o+1..o+n with parentheses nested at most d deep: Terms are the
\* atoms and the parenthesised groups, Clauses the terms joined by and/or.
RECURSIVE Terms(_, _, _), Clauses(_, _, _)
Terms(n, o, d) ==
    (IF n = 1 THEN {AtomWords(o + 1)} ELSE {})
    \cup (IF d > 0
          THEN {<<<<"(">>>> \o c \o <<<<")">>>> : c \in Clauses(n, o, d - 1)}
          ELSE {})

Clauses(n, o, d) ==
    Terms(n, o, d)
    \cup UNION {{t \o <<op>> \o c :
                    t \in Terms(k, o, d), op \in {W_and, W_or},
                    c \in Clauses(n - k, o + k, d)} : k \in 1..(n - 1)}

\* The text of a clause: its words separated by one space.
ClauseText(words) ==
    SubSeq(joinWith(words, <<" ">>), 1, Len(joinWith(words, <<" ">>)) - 1)

\* The WHERE clauses given to the constructor
WhereClauses ==
    {ClauseText(c) : c \in UNION {Clauses(n, 0, MaxDepth) : n \in 1..MaxAtoms}}

\* The row lines apply is given: one int cell, 0 or 1, per column
WhereRows == [1..MaxAtoms -> {<<"0">>, <<"1">>}]

\* The schema of those rows
WhereSchema ==
    Schema(Name_t, [k \in 1..MaxAtoms |->
                       HeaderColumn(AtomColumns[k], T_int, <<>>, FALSE, FALSE)])

InitRestriction ==
    /\ tables = [n \in TableNames |-> NoFile]
    /\ tmps = [n \in TableNames |-> NoFile]
    /\ last = Last("", <<>>, <<>>, <<>>, "", <<>>)
    /\ where \in {[pc |-> "infix", clause |-> c, row |-> r, restriction |-> <<>>,
                   err |-> "", val |-> FALSE] :
                     c \in WhereClauses \cup {<<>>}, r \in WhereRows}
    /\ stream = NoStream

\* Restriction::Restriction(restriction)
Construct ==
    /\ where.pc = "infix"
    /\ \E r \in {parseRestriction(where.clause)} :
          where' = [where EXCEPT !.pc = "postfix", !.restriction = r.restriction,
                                 !.err = r.err]
    /\ UNCHANGED <<tables, tmps, last, stream>>

\* A variant of applyToRow in which the object gives up its postfix text
\* once it has been evaluated.
applyConsuming(w) ==
    With(apply(w.restriction, ReadRow(WhereSchema, w.row)),
         LAMBDA a : [w EXCEPT !.err = a.err, !.val = a.val, !.restriction = <<>>])

\* One call of Restriction::apply on the object and the row of w: the row
\* is taken by const reference, `parts` and `restrictionResultStack` are
\* locals and the field `restriction` is only read.
applyToRow(w) ==
    With(apply(w.restriction, ReadRow(WhereSchema, w.row)),
         LAMBDA a : [w EXCEPT !.err = a.err, !.val = a.val])

\* Restriction::apply(row), on a new object ("postfix") or on one that has
\* been applied before
Apply ==
    /\ where.pc \in {"postfix", "applied"}
    /\ where.err = ""
    /\ \E w \in {applyToRow(where)} :
          where' = [w EXCEPT !.pc = IF where.pc = "postfix" THEN "applied"
                                    ELSE "reapplied"]
    /\ UNCHANGED <<tables, tmps, last, stream>>

NextRestriction == Construct \/ Apply

SpecRestriction == InitRestriction /\ [][NextRestriction]_vars

(***************************************************************************)
(* The table stream of a SELECT on its own: the tables t and u hold rows   *)
(* that INSERT queries have written, a SELECT with ORDER BY or DISTINCT is *)
(* run on one of them, or the two are joined and the JoinedTable is read   *)
(* row by row as the loop of main reads it.  One SELECT is followed from   *)
(* each directory.                                                         *)
(***************************************************************************)
\* The row lines of the two tables
SelectedRows(tableName) ==
    IF tableName = Name_t
    THEN {<<<<"1">>, <<"b">>>>, <<<<"2">>, <<"a">>>>, <<<<"1", "0">>, <<"a">>>>}
    ELSE {<<<<"1">>, <<"1">>>>, <<NULL_VALUE, <<"1">>>>, <<<<"1">>, NULL_VALUE>>}

SelectedLines(tableName, max) ==
    UNION {[1..k -> SelectedRows(tableName)] : k \in 0..max}

\* The directories: the primary keys of t differ, and a value of u.a or u.b
\* is a value of t.id.
SelectedDirectories ==
    {dir \in {[n \in TableNames |->
                 IF n = Name_t THEN File(Header(Name_t), tr)
                 ELSE IF n = Name_u THEN File(Header(Name_u), ur)
                 ELSE NoFile] :
                    tr \in SelectedLines(Name_t, MaxSelected),
                    ur \in SelectedLines(Name_u, MaxRows)} :
        /\ \A i, j \in 1..Len(dir[Name_t].rows) :
              i # j => dir[Name_t].rows[i][1] # dir[Name_t].rows[j][1]
        /\ \A i \in 1..Len(dir[Name_u].rows) : \A c \in 1..2 :
              dir[Name_u].rows[i][c] # NULL_VALUE
                 => \E k \in 1..Len(dir[Name_t].rows) :
                       dir[Name_t].rows[k][1] = dir[Name_u].rows[i][c]}

Order_name_id == Col_name \o <<",">> \o Col_id
Where_id_eq_id_and_gt_1 == Where_id_eq_id \o <<" ", "a", "n", "d", " ", "i", "d", " ", ">", " ", "1">>
Where_t_id_eq_u_b == <<"t", ".", "i", "d", " ", "=", " ", "u", ".", "b">>
Names_t_u == Name_t \o <<",">> \o Name_u

\* The orderBy property of the SELECT queries
OrderBys(tableName) ==
    IF tableName = Name_t THEN {<<>>, Col_id, Order_name_id} ELSE {<<>>, Col_a}

\* The restrictions property of the SELECT queries with ORDER BY or DISTINCT
OrderedWheres(tableName) ==
    IF tableName = Name_t THEN {<<>>, Where_id_eq_id_and_gt_1} ELSE {<<>>}

\* The join condition and the restrictions of the joins: those of
\* `SELECT ... FROM t , u ;` and `SELECT ... FROM t , u WHERE t.id = u.b ;`,
\* and t.joinTo(u, "t.id = u.b") with no restriction set afterwards.
JoinQueries ==
    {[joinConditions |-> extractJoinConditions(w).str, restrictions |-> w] :
        w \in {<<>>, Where_t_id_eq_u_b}}
    \cup {[joinConditions |-> Where_t_id_eq_u_b, restrictions |-> <<>>]}

\* The columnNames property of the joins
JoinColumns == {<<"*">>, Col_b}

\* The orderBy property of the joins
JoinOrderBys == {<<>>, Col_name}

InitSelect ==
    /\ tables \in SelectedDirectories
    /\ tmps = [n \in TableNames |-> NoFile]
    /\ last = Last("", <<>>, <<>>, <<>>, "", <<>>)
    /\ where = NoWhere
    /\ stream = NoStream

\* main for a SELECT on one base table (DESC is read after the columns of
\* ORDER BY only)
Query(n, columnNames, restrictions, orderByNames, desc, distinct) ==
    /\ stream.pc = "none"
    /\ desc => orderByNames # <<>>
    /\ \E r \in selectOrdered(tables, n, columnNames, restrictions, orderByNames,
                              desc, distinct, extractJoinConditions(restrictions)) :
          /\ last' = Last("select", n, restrictions, columnNames, r.err, r.out)
          /\ stream' = [NoStream EXCEPT !.pc = "selected", !.orderBy = orderByNames,
                                        !.desc = desc, !.distinct = distinct]
    /\ UNCHANGED <<tables, tmps, where>>

\* executeSelectQuery for the tables t and u
Join(q, columnNames, orderByNames, distinct) ==
    /\ stream.pc = "none"
    /\ \E j \in joinedSelect(tables, Name_t, Name_u, q.joinConditions,
                             q.restrictions, orderByNames, FALSE, distinct, columnNames) :
          stream' = [NoStream EXCEPT !.pc = IF j.err = "" THEN "joined" ELSE "failed",
                                     !.orderBy = orderByNames,
                                     !.distinct = distinct, !.table = j.table,
                                     !.call = "joinTo", !.thrown = j.err]
    /\ last' = Last("select", Names_t_u, q.restrictions, columnNames, "", <<>>)
    /\ UNCHANGED <<tables, tmps, where>>

\* `result >> row` and the test of result in the loop of main, on a join
Extract ==
    /\ stream.pc = "joined"
    /\ \E j \in {joinedPull(tables, stream.table)} :
          stream' = [stream EXCEPT
                        !.table = j.table, !.call = ">>", !.thrown = j.err,
                        !.pc = IF j.err # "" THEN "failed"
                               ELSE IF joinedHasRows(j.table) THEN "joined"
                               ELSE "end",
                        !.out = IF j.err = "" /\ joinedHasRows(j.table)
                                THEN Append(@, [k \in 1..Len(j.row) |-> j.row[k].colValue])
                                ELSE @]
    /\ UNCHANGED <<tables, tmps, last, where>>

\* JoinedTable::insertRow
InsertRow ==
    /\ stream.pc \in {"joined", "end"}
    /\ \E m \in {joinedInsertRow(stream.table)} :
          stream' = [stream EXCEPT !.table = m.table, !.call = "insertRow",
                                   !.thrown = m.err]
    /\ UNCHANGED <<tables, tmps, last, where>>

\* JoinedTable::updateRows
UpdateRows ==
    /\ stream.pc \in {"joined", "end"}
    /\ \E m \in {joinedUpdateRows(stream.table)} :
          stream' = [stream EXCEPT !.table = m.table, !.call = "updateRows",
                                   !.thrown = m.err]
    /\ UNCHANGED <<tables, tmps, last, where>>

\* JoinedTable::deleteRows
DeleteRows ==
    /\ stream.pc \in {"joined", "end"}
    /\ \E m \in {joinedDeleteRows(stream.table)} :
          stream' = [stream EXCEPT !.table = m.table, !.call = "deleteRows",
                                   !.thrown = m.err]
    /\ UNCHANGED <<tables, tmps, last, where>>

NextSelect ==
    \/ \E n \in {Name_t, Name_u} :
          \E columnNames \in SelectColumns(n), restrictions \in OrderedWheres(n),
             orderByNames \in OrderBys(n), desc \in BOOLEAN, distinct \in BOOLEAN :
                Query(n, columnNames, restrictions, orderByNames, desc, distinct)
    \/ \E q \in JoinQueries, columnNames \in JoinColumns,
          orderByNames \in JoinOrderBys, distinct \in BOOLEAN :
             Join(q, columnNames, orderByNames, distinct)
    \/ Extract
    \/ InsertRow
    \/ UpdateRows
    \/ DeleteRows

SpecSelect == InitSelect /\ [][NextSelect]_vars

(***************************************************************************)
(* CREATE TABLE on its own: the client creates the table t, in a directory *)
(* that holds no table, with a query made of up to MaxItems of the items   *)
(* below, and drops it again.  Every query declares at least one column.   *)
(***************************************************************************)
Col_id_int == <<"i", "d", " ", "i", "n", "t">>
Col_name_varchar_3 == <<"n", "a", "m", "e", " ", "v", "a", "r", "c", "h", "a", "r", " ", "(", " ", "3", " ", ")">>
Key_id == <<"P", "R", "I", "M", "A", "R", "Y", " ", "K", "E", "Y", " ", "(", " ", "i", "d", " ", ")">>
Key_name == <<"P", "R", "I", "M", "A", "R", "Y", " ", "K", "E", "Y", " ", "(", " ", "n", "a", "m", "e", " ", ")">>
Col_id_bigint_not_null == <<"i", "d", " ", "b", "i", "g", "i", "n", "t", " ", "N", "O", "T", " ", "N", "U", "L", "L">>
Col_a_int_references_id == <<"a", " ", "i", "n", "t", " ", "R", "E", "F", "E", "R", "E", "N", "C", "E", "S", " ", "(", " ", "i", "d", " ", ")">>

\* The items of the CREATE queries: the text of each and, for the
\* properties, what it declares.
CreateItems ==
    <<[text |-> Col_id_int, key |-> FALSE, colName |-> Col_id, colType |-> T_int,
       references |-> <<>>, notNull |-> FALSE],
      [text |-> Col_name_varchar_3, key |-> FALSE, colName |-> Col_name,
       colType |-> VarcharType(3), references |-> <<>>, notNull |-> FALSE],
      [text |-> Key_id, key |-> TRUE, colName |-> Col_id, colType |-> <<>>,
       references |-> <<>>, notNull |-> FALSE],
      [text |-> Key_name, key |-> TRUE, colName |-> Col_name, colType |-> <<>>,
       references |-> <<>>, notNull |-> FALSE],
      [text |-> Col_id_bigint_not_null, key |-> FALSE, colName |-> Col_id,
       colType |-> T_bigint, references |-> <<>>, notNull |-> TRUE],
      [text |-> Col_a_int_references_id, key |-> FALSE, colName |-> Col_a,
       colType |-> T_int, references |-> Col_id, notNull |-> FALSE]>>

\* The texts of the items, a comma between two of them
RECURSIVE ItemsText(_)
ItemsText(items) ==
    IF Len(items) = 1 THEN CreateItems[items[1]].text
    ELSE CreateItems[items[1]].text \o <<" ", ",", " ">> \o ItemsText(Tail(items))

\* CREATE TABLE t ( items ) ;
CreateText(items) ==
    <<"C", "R", "E", "A", "T", "E", " ", "T", "A", "B", "L", "E", " ", "t", " ", "(", " ">> \o ItemsText(items) \o <<" ", ")", " ", ";">>

\* The item lists of the queries: no item twice, one column at least
CreateQueries ==
    UNION {{items \in [1..k -> 1..Len(CreateItems)] :
               /\ \A i, j \in 1..k : i # j => items[i] # items[j]
               /\ \E i \in 1..k : ~CreateItems[items[i]].key} : k \in 1..MaxItems}

InitCreate ==
    /\ tables = [n \in TableNames |-> NoFile]
    /\ tmps = [n \in TableNames |-> NoFile]
    /\ last = Last("", <<>>, <<>>, <<>>, "", <<>>)
    /\ where = NoWhere
    /\ stream = NoStream

\* main reads the CREATE query made of items and executes it; last keeps
\* the items of the query.
CreateQuery(items) ==
    /\ last.type # "create"
    /\ \E r \in {executeCreate(tables, parseCreateQuery(CreateText(items)))} :
          /\ tables' = r.tables
          /\ last' = [type |-> "create", tableName |-> Name_t, items |-> items,
                      err |-> r.err]
    /\ UNCHANGED <<tmps, where, stream>>

\* main reads DROP TABLE t ; and executes it.
DropCreated ==
    /\ last.type = "create"
    /\ Drop(Name_t)

NextCreate ==
    \/ \E items \in CreateQueries : CreateQuery(items)
    \/ DropCreated

SpecCreate == InitCreate /\ [][NextCreate]_vars

(***************************************************************************)
(* Properties of the table files.                                          *)
(***************************************************************************)
\* The positions of the primary-key columns of a header
PrimaryKeyColumns(header) == {p \in 1..Len(header) : header[p].primaryKey}

\* The column a reference of table n names: of `t.c` the column c of table
\* t, of `c` the column c of n itself.
Target(n, references) ==
    IF FindChar(references, ".") = 0
    THEN [table |-> n, column |-> references]
    ELSE [table |-> SubSeq(references, 1, FindChar(references, ".") - 1),
          column |-> SubSeq(references, FindChar(references, ".") + 1,
                            Len(references))]

\* Some row of the target column holds value.
TargetHolds(target, value) ==
    \E i \in 1..Len(OpenTable(tables, target.table).rows) :
       \E c \in 1..Len(OpenTable(tables, target.table).header) :
          /\ OpenTable(tables, target.table).header[c].colName = target.column
          /\ c <= Len(OpenTable(tables, target.table).rows[i])
          /\ OpenTable(tables, target.table).rows[i][c] = value

\* The messages of the InvalidQueryExceptions
InvalidQueries ==
    {"InvalidQuery", "InvalidQuery: Invalid data type", "InvalidQuery: cannot be null",
     "InvalidQuery: Primary key must be unique", "InvalidQuery: does not reference",
     Referenced, "InvalidQuery: invalid referenced column",
     "InvalidQuery: already exists", "InvalidQuery: does not exist",
     "InvalidQuery: Malformed query", "InvalidQuery: Expected 'null'",
     "InvalidQuery: Missing brackets", "InvalidQuery: Unexpected symbol",
     "InvalidQuery: Expected 'key' after 'primary'",
     "InvalidQuery: Expected parentheses",
     "InvalidQuery: Table cannot have more than one primary key",
     "InvalidQuery: Column names must be unique",
     "InvalidQuery: Cannot update a remote table",
     "InvalidQuery: Cannot delete from a remote table"}

\* C1: primary-key uniqueness.  In every reachable state no two rows of a
\* table hold the same value in the table's primary-key column, whatever the
\* type of the key and whatever the number of rows an UPDATE of it matched.
\* (Two cells that are both NULL_VALUE are not counted as the same value.)
C1_PrimaryKeyUnique ==
    \A n \in TableNames :
       \A p \in PrimaryKeyColumns(tables[n].header) :
          \A i, j \in 1..Len(tables[n].rows) :
             (i # j /\ tables[n].rows[i][p] # NULL_VALUE)
             => tables[n].rows[i][p] # tables[n].rows[j][p]

\* C2: foreign-key closure.  In every reachable state every non-null cell of
\* a column that declares a reference has a row of the target table holding
\* the same value in the target column, also when two columns of a table
\* reference the same target.
C2_ForeignKeyClosure ==
    \A n \in TableNames :
       \A c \in 1..Len(tables[n].header) :
          tables[n].header[c].references # <<>> =>
             \A i \in 1..Len(tables[n].rows) :
                tables[n].rows[i][c] # NULL_VALUE =>
                   TargetHolds(Target(n, tables[n].header[c].references),
                               tables[n].rows[i][c])

\* C3: not-null.  In every reachable state no stored row holds NULL_VALUE in
\* a column whose metadata is notNull.
C3_NotNull ==
    \A n \in TableNames :
       \A c \in 1..Len(tables[n].header) :
          tables[n].header[c].notNull =>
             \A i \in 1..Len(tables[n].rows) : tables[n].rows[i][c] # NULL_VALUE

\* The rows of t whose id is 1, each projected to columnNames
RowsWithIdOne(columnNames) ==
    [i \in 1..Len(SelectSeq(tables[Name_t].rows, LAMBDA row : row[1] = <<"1">>)) |->
        IF columnNames = <<"*">>
        THEN SelectSeq(tables[Name_t].rows, LAMBDA row : row[1] = <<"1">>)[i]
        ELSE <<SelectSeq(tables[Name_t].rows, LAMBDA row : row[1] = <<"1">>)[i][2]>>]

\* C4: a SELECT on the table t with `WHERE id = 1` ends without an error and
\* prints exactly the rows of t whose id is 1, projected to the listed
\* columns.
C4_SelectByLiteral ==
    (/\ last.type = "select"
     /\ last.tableName = Name_t
     /\ last.restrictions = Where_id_eq_1
     /\ tables[Name_t].exists)
    => (last.err = "" /\ last.out = RowsWithIdOne(last.columnNames))

\* C5: atomicity of content.  Every UPDATE and every DELETE that fails leaves
\* every table file with the content it had before the operation.
C5_FailedWriteLeavesTable ==
    [][(last'.type \in {"update", "delete"} /\ last'.err # "")
          => tables' = tables]_vars

\* A DELETE ... WHERE id = 1 on t that failed on the second row of the file,
\* for a value u references, after the first row had been written to the
\* temp file.
C5_DeleteFailedAfterFirstRow ==
    /\ last.type = "delete"
    /\ last.tableName = Name_t
    /\ last.restrictions = Where_id_eq_1
    /\ last.err = Referenced
    /\ Len(tables[Name_t].rows) = 2
    /\ tables[Name_t].rows[1][1] # <<"1">>
    /\ tables[Name_t].rows[2][1] = <<"1">>

\* C6: temp-file cleanup.  In the state a failed UPDATE or DELETE leaves, the
\* table directory holds no temp file of the table.
C6_NoTempAfterFailure ==
    (last.type \in {"update", "delete"} /\ last.err # "")
    => ~tmps[last.tableName].exists

\* The step is the INSERT of values into table n.
InsertOf(n, values) ==
    /\ last'.type = "insert"
    /\ last'.tableName = n
    /\ \E ub \in ReadOutcomes(n) : Insert(n, values, ub)

\* The step is the UPDATE of table n that sets colName to value.
UpdateOf(n, colName, value) ==
    /\ last'.type = "update"
    /\ last'.tableName = n
    /\ \E ub \in ReadOutcomes(n) : Update(n, colName, value, last'.restrictions, ub)

\* The value a literal of a query denotes in a column of type colType: the
\* literal as formatColumnValue stores it.
Stored(colType, value) == formatColumnValue(colType, value).str

\* values gives the primary key of table n the non-null value some row
\* already holds.
DuplicateKey(n, values) ==
    \E p \in PrimaryKeyColumns(tables[n].header) :
       /\ values[p] # NULL_VALUE
       /\ Stored(tables[n].header[p].colType, values[p]) # NULL_VALUE
       /\ \E i \in 1..Len(tables[n].rows) :
             tables[n].rows[i][p] = Stored(tables[n].header[p].colType, values[p])

\* C7: an INSERT whose primary-key value is the primary-key value of a row
\* of the table fails with `Primary key must be unique` and leaves every
\* table as it was.
C7_DuplicateKeyInsertFails ==
    [][\A n \in TableNames : \A values \in InsertValues(n) :
          (DuplicateKey(n, values) /\ InsertOf(n, values))
          => (/\ last'.err = "InvalidQuery: Primary key must be unique"
              /\ tables' = tables)]_vars

\* values gives a column of table n that declares a reference a non-null
\* value no row of the target column holds.
Unreferenced(n, values) ==
    \E c \in 1..Len(tables[n].header) :
       /\ tables[n].header[c].references # <<>>
       /\ values[c] # NULL_VALUE
       /\ ~TargetHolds(Target(n, tables[n].header[c].references), values[c])

\* C8: an INSERT of a non-null value into a column that declares a
\* reference, `REFERENCES ( c )` or `REFERENCES ( t.c )`, fails with the
\* reference error when no row of the target column holds the value, and
\* leaves every table as it was.
C8_UnreferencedInsertFails ==
    [][\A n \in TableNames : \A values \in InsertValues(n) :
          (Unreferenced(n, values) /\ InsertOf(n, values))
          => (/\ last'.err = "InvalidQuery: does not reference"
              /\ tables' = tables)]_vars

\* The literal is one of the declared type: digits for int and bigint, a
\* double-quoted text for char and varchar.
WellTyped(colType, value) ==
    IF colType = T_int \/ colType = T_bigint THEN AllDigits(value)
    ELSE IF Contains(colType, T_char)
    THEN Len(value) >= 2 /\ value[1] = "\"" /\ value[Len(value)] = "\""
    ELSE TRUE

\* value is not null and not of the type of the column colName of table n.
IllTyped(n, colName, value) ==
    /\ value # NULL_VALUE
    /\ \E c \in 1..Len(tables[n].header) :
          /\ tables[n].header[c].colName = colName
          /\ ~WellTyped(tables[n].header[c].colType, value)

\* C9: type validation on write.  An INSERT or an UPDATE that gives a column
\* a non-null value that is not of the column's declared type fails with an
\* InvalidQueryException and leaves every table as it was.
C9_IllTypedValueRejected ==
    [][/\ \A n \in TableNames : \A values \in InsertValues(n) :
             (/\ \E c \in 1..Len(tables[n].header) :
                    IllTyped(n, tables[n].header[c].colName, values[c])
              /\ InsertOf(n, values))
             => (last'.err \in InvalidQueries /\ tables' = tables)
       /\ \A n \in TableNames : \A colName \in UpdateColumns(n) :
             \A value \in UpdateLiterals(n, colName) :
                (IllTyped(n, colName, value) /\ UpdateOf(n, colName, value))
                => (last'.err \in InvalidQueries /\ tables' = tables)]_vars

(***************************************************************************)
(* Properties of a Restriction.                                            *)
(***************************************************************************)
\* The comparison atom at words[i..i+2] on the row
AtomHolds(words, i, row) ==
    \E k \in 1..Len(row) : AtomColumns[k] = words[i] /\ row[k] = words[i + 2]

\* The conventional meaning of the clause that starts at words[i]:
\* parenthesised groups first, `and` binding tighter than `or`.
\* [val, next], next being the position after what was read.
RECURSIVE ConventionalOr(_, _, _), ConventionalAnd(_, _, _)

ConventionalTerm(words, i, row) ==
    IF words[i] = <<"(">>
    THEN [val |-> ConventionalOr(words, i + 1, row).val,
          next |-> ConventionalOr(words, i + 1, row).next + 1]
    ELSE [val |-> AtomHolds(words, i, row), next |-> i + 3]

ConventionalAndRest(words, row, t) ==
    IF t.next <= Len(words) /\ words[t.next] = W_and
    THEN [val |-> t.val /\ ConventionalAnd(words, t.next + 1, row).val,
          next |-> ConventionalAnd(words, t.next + 1, row).next]
    ELSE t

ConventionalAnd(words, i, row) ==
    ConventionalAndRest(words, row, ConventionalTerm(words, i, row))

ConventionalOrRest(words, row, a) ==
    IF a.next <= Len(words) /\ words[a.next] = W_or
    THEN [val |-> a.val \/ ConventionalOr(words, a.next + 1, row).val,
          next |-> ConventionalOr(words, a.next + 1, row).next]
    ELSE a

ConventionalOr(words, i, row) ==
    ConventionalOrRest(words, row, ConventionalAnd(words, i, row))

\* The meaning of the clause that starts at words[i] when `and` and `or`
\* have one precedence and group to the right: `x and y or z` is
\* `x and (y or z)`.  [val, next]
RECURSIVE RightGrouped(_, _, _)

RightGroupedTerm(words, i, row) ==
    IF words[i] = <<"(">>
    THEN [val |-> RightGrouped(words, i + 1, row).val,
          next |-> RightGrouped(words, i + 1, row).next + 1]
    ELSE [val |-> AtomHolds(words, i, row), next |-> i + 3]

RightGroupedRest(words, row, t) ==
    IF t.next <= Len(words) /\ words[t.next] = W_and
    THEN [val |-> t.val /\ RightGrouped(words, t.next + 1, row).val,
          next |-> RightGrouped(words, t.next + 1, row).next]
    ELSE IF t.next <= Len(words) /\ words[t.next] = W_or
    THEN [val |-> t.val \/ RightGrouped(words, t.next + 1, row).val,
          next |-> RightGrouped(words, t.next + 1, row).next]
    ELSE t

RightGrouped(words, i, row) ==
    RightGroupedRest(words, row, RightGroupedTerm(words, i, row))

\* C10 as the specification states it: postfix equivalence.  For every
\* well-formed clause and every row, apply on the compiled postfix form
\* returns the conventional meaning of the infix clause.
C10_PostfixIsConventional ==
    (where.pc = "applied" /\ where.clause # <<>>)
    => (/\ where.err = ""
        /\ where.val = ConventionalOr(split(where.clause, " ", TRUE), 1, where.row).val)

\* C10 as the code has it: for every well-formed clause and every row, apply
\* on the compiled postfix form returns the meaning of the infix clause in
\* which parenthesised groups come first and, within a group, `and` and `or`
\* have one precedence and group to the right.
C10_PostfixIsRightGrouped ==
    (where.pc = "applied" /\ where.clause # <<>>)
    => (/\ where.err = ""
        /\ where.val = RightGrouped(split(where.clause, " ", TRUE), 1, where.row).val)

\* `a = 1 and b = 1 or c = 1` applied to the row (0, 0, 1): false, where the
\* conventional meaning is true.
C10_MixedClauseApplied ==
    /\ where.pc = "applied"
    /\ where.clause = ClauseText(AtomWords(1) \o <<W_and>> \o AtomWords(2)
                                 \o <<W_or>> \o AtomWords(3))
    /\ where.row[1] = <<"0">> /\ where.row[2] = <<"0">> /\ where.row[3] = <<"1">>
    /\ where.err = ""
    /\ ~where.val

(***************************************************************************)
(* Properties of the table stream of a SELECT.                             *)
(***************************************************************************)
\* The cell of a printed row of `SELECT *` under a column of the table
CellOf(tableName, row, colName) ==
    row[getColumnIndex(Schema(tableName, Header(tableName)), colName)]

\* The declared type of a column of the table
TypeOf(tableName, colName) ==
    Header(tableName)[getColumnIndex(Schema(tableName, Header(tableName)), colName)].colType

\* a is before b in the order of the declared type: numbers by value,
\* texts by their characters
TypedLess(colType, a, b) ==
    IF colType = T_int \/ colType = T_bigint THEN stoll(a).val < stoll(b).val
    ELSE StrLess(a, b)

\* row1 is before row2 in the lexicographic order on the columns of names
LexLess(tableName, names, row1, row2) ==
    \E k \in 1..Len(names) :
       /\ \A j \in 1..(k - 1) :
             CellOf(tableName, row1, names[j]) = CellOf(tableName, row2, names[j])
       /\ TypedLess(TypeOf(tableName, names[k]),
                    CellOf(tableName, row1, names[k]),
                    CellOf(tableName, row2, names[k]))

\* C11: the rows a `SELECT * ... ORDER BY c1, c2` on a base table prints are
\* non-decreasing in the lexicographic order on (c1, c2), each column
\* compared by its declared type, and non-increasing when DESC is given.
C11_OrderByEmitsSorted ==
    (/\ stream.pc = "selected"
     /\ stream.orderBy # <<>>
     /\ last.columnNames = <<"*">>)
    => \A k \in 1..(Len(last.out) - 1) :
          IF stream.desc
          THEN ~LexLess(last.tableName, split(stream.orderBy, ",", FALSE),
                        last.out[k], last.out[k + 1])
          ELSE ~LexLess(last.tableName, split(stream.orderBy, ",", FALSE),
                        last.out[k + 1], last.out[k])

\* C11 witness: the rows with id 1, 2 and 10, stored in that order with the
\* names b, a, a, are printed 2, 10, 1 by ORDER BY name, id and no DESC (the
\* ids 2 and 10 of the name a in the order of their values).
C11_OrderedByNameThenId ==
    /\ stream.pc = "selected"
    /\ stream.orderBy = Order_name_id
    /\ ~stream.desc
    /\ last.columnNames = <<"*">>
    /\ last.err = ""
    /\ tables[Name_t].rows = <<<<<<"1">>, <<"b">>>>, <<<<"2">>, <<"a">>>>,
                               <<<<"1", "0">>, <<"a">>>>>>
    /\ last.out = <<<<<<"2">>, <<"a">>>>, <<<<"1", "0">>, <<"a">>>>,
                    <<<<"1">>, <<"b">>>>>>

\* C12: no two rows a SELECT with DISTINCT prints, from a base table or from
\* a join, have the same projected cells.
C12_DistinctEmitsNoDuplicate ==
    /\ (stream.pc = "selected" /\ stream.distinct)
          => \A i, j \in 1..Len(last.out) : i # j => last.out[i] # last.out[j]
    /\ (stream.pc \in {"joined", "end"} /\ stream.distinct)
          => \A i, j \in 1..Len(stream.out) : i # j => stream.out[i] # stream.out[j]

\* C12 witness: `SELECT DISTINCT name FROM t ;` prints one row for the two
\* rows of t that hold the name a.
C12_OneRowForTwoNames ==
    /\ stream.pc = "selected"
    /\ stream.distinct
    /\ last.tableName = Name_t
    /\ last.columnNames = Col_name
    /\ last.err = ""
    /\ tables[Name_t].rows = <<<<<<"2">>, <<"a">>>>, <<<<"1", "0">>, <<"a">>>>>>
    /\ last.out = <<<<<<"a">>>>>>

\* A join read to its end with no restriction, no DISTINCT and no column
\* filter of its own
PlainJoinEnded ==
    /\ stream.pc = "end"
    /\ stream.table.restriction = <<>>
    /\ ~stream.table.distinct
    /\ stream.table.colFilter = <<>>

\* The cell of a row line of t or u that `t.id = u.b` compares
JoinKey(tableName, line) == IF tableName = Name_t THEN line[1] ELSE line[2]

\* The cells that follow those of the probe row in a row of the left outer
\* join: a build row with the key of the probe row, blank cells if there is
\* none
OuterCells(build, probe, line) ==
    IF \E k \in 1..Len(tables[build].rows) :
          JoinKey(build, tables[build].rows[k]) = JoinKey(probe, line)
    THEN {tables[build].rows[k] :
             k \in {x \in 1..Len(tables[build].rows) :
                       JoinKey(build, tables[build].rows[x]) = JoinKey(probe, line)}}
    ELSE {[c \in 1..Len(tables[build].header) |-> <<>>]}

\* C13: the join of t and u under `t.id = u.b`, read to its end before any
\* restriction of its own, yields one row for each row of the probe table,
\* in their order: the cells of the probe row followed by the cells of a
\* build row with the same key, or by one blank cell for each column of the
\* build schema when no build row has the key.
C13_LeftOuterJoin ==
    (PlainJoinEnded /\ DOMAIN stream.table.columnMap # {})
    => /\ Len(stream.out) = Len(tables[stream.table.probe].rows)
       /\ \A i \in 1..Len(stream.out) :
             \E cells \in OuterCells(stream.table.build, stream.table.probe,
                                     tables[stream.table.probe].rows[i]) :
                stream.out[i] = tables[stream.table.probe].rows[i] \o cells

\* C14: the join of t and u with no condition, read to its end, yields every
\* pairing of a row of the probe table with a row of the build table, m * n
\* rows in all.
C14_CrossProduct ==
    (PlainJoinEnded /\ DOMAIN stream.table.columnMap = {})
    => /\ Len(stream.out) = Len(tables[stream.table.probe].rows)
                               * Len(tables[stream.table.build].rows)
       /\ \A i \in 1..Len(tables[stream.table.probe].rows) :
             \A k \in 1..Len(tables[stream.table.build].rows) :
                \E x \in 1..Len(stream.out) :
                   stream.out[x] = tables[stream.table.probe].rows[i]
                                      \o tables[stream.table.build].rows[k]

(***************************************************************************)
(* Properties of CREATE TABLE.                                             *)
(***************************************************************************)
\* The column definitions among the items of a query, in the order of the
\* query
Declared(items) ==
    SelectSeq([i \in 1..Len(items) |-> CreateItems[items[i]]], LAMBDA item : ~item.key)

\* The columns the query declares that a PRIMARY KEY clause of the query
\* names, before or after the definition of the column
DeclaredKeys(items) ==
    {CreateItems[items[i]].colName : i \in {j \in 1..Len(items) : CreateItems[items[j]].key}}
    \cap {CreateItems[items[i]].colName : i \in {j \in 1..Len(items) : ~CreateItems[items[j]].key}}

\* Two column definitions of the query give the same name.
RepeatedName(items) ==
    \E i, j \in 1..Len(Declared(items)) :
       i # j /\ Declared(items)[i].colName = Declared(items)[j].colName

\* C15: schema uniqueness.  The header of every table file gives distinct
\* column names and flags at most one column primary-key, and a CREATE that
\* defines two columns of one name, or names two of its columns in PRIMARY
\* KEY clauses, fails with an InvalidQueryException and creates no file.
C15_SchemaUniqueness ==
    /\ \A n \in TableNames :
          /\ \A i, j \in 1..Len(tables[n].header) :
                i # j => tables[n].header[i].colName # tables[n].header[j].colName
          /\ Cardinality(PrimaryKeyColumns(tables[n].header)) <= 1
    /\ (/\ last.type = "create"
        /\ RepeatedName(last.items) \/ Cardinality(DeclaredKeys(last.items)) > 1)
       => (last.err \in InvalidQueries /\ ~tables[Name_t].exists)

\* C16: in the state a successful CREATE leaves, the file of the table
\* holds no row and its header parses back to the columns the query
\* defines, in the order of the query, with their types, references and
\* NOT NULL options, and every column a PRIMARY KEY clause of the query
\* names is primary-key and not-null, whether the clause stands before or
\* after the definition of the column.
C16_CreateWritesSchema ==
    (last.type = "create" /\ last.err = "")
    => /\ tables[Name_t].exists
       /\ tables[Name_t].rows = <<>>
       /\ Len(tables[Name_t].header) = Len(Declared(last.items))
       /\ \A i \in 1..Len(Declared(last.items)) :
             /\ tables[Name_t].header[i].colName = Declared(last.items)[i].colName
             /\ tables[Name_t].header[i].colType = Declared(last.items)[i].colType
             /\ tables[Name_t].header[i].references
                   = Declared(last.items)[i].references
             /\ Declared(last.items)[i].notNull => tables[Name_t].header[i].notNull
             /\ Declared(last.items)[i].colName \in DeclaredKeys(last.items)
                => (/\ tables[Name_t].header[i].primaryKey
                    /\ tables[Name_t].header[i].notNull)

\* The step is the CREATE of table n.
CreateOf(n) ==
    /\ last'.type = "create"
    /\ last'.tableName = n
    /\ Create(n)

\* C17: a CREATE TABLE of a table whose file exists fails with an
\* InvalidQueryException and leaves the file, header and rows, as it was.
C17_CreateOfExistingFails ==
    [][\A n \in TableNames :
          (tables[n].exists /\ CreateOf(n))
          => (last'.err \in InvalidQueries /\ tables' = tables)]_vars

\* C17 witness: the CREATE of t failed with `already exists` on a file of t
\* that holds two rows.
C17_CreateFailedOnTwoRows ==
    /\ last.type = "create"
    /\ last.tableName = Name_t
    /\ last.err = "InvalidQuery: already exists"
    /\ tables[Name_t].exists
    /\ Len(tables[Name_t].rows) = 2

\* The step is the DROP of table n.
DropOf(n) ==
    /\ last'.type = "drop"
    /\ last'.tableName = n
    /\ Drop(n)

\* Some row of another table holds, in a column that declares
\* REFERENCES n.c, the value some row of table n holds in its column c.
LiveReference(n) ==
    \E m \in TableNames \ {n} :
       \E j \in 1..Len(tables[m].header) :
          /\ tables[m].header[j].references # <<>>
          /\ Target(m, tables[m].header[j].references).table = n
          /\ \E k \in 1..Len(tables[m].rows) :
                /\ tables[m].rows[k][j] # NULL_VALUE
                /\ \E c \in 1..Len(tables[n].header) :
                      /\ tables[n].header[c].colName
                            = Target(m, tables[m].header[j].references).column
                      /\ \E i \in 1..Len(tables[n].rows) :
                            tables[n].rows[i][c] = tables[m].rows[k][j]

\* C18: a DROP TABLE of an existing table fails with an
\* InvalidQueryException and leaves the file in place when a row of another
\* table references a cell of the table, and deletes the file when no row
\* does.
C18_DropGuardsReferences ==
    [][\A n \in TableNames :
          (tables[n].exists /\ DropOf(n))
          => IF LiveReference(n)
             THEN last'.err \in InvalidQueries /\ tables' = tables
             ELSE last'.err = "" /\ ~tables'[n].exists]_vars

\* C19: an UPDATE of an existing table that sets its primary-key column and
\* has no WHERE clause fails with an InvalidQueryException, whatever the
\* number of rows of the table, and leaves every table file as it was and
\* no temp file behind.
C19_KeyUpdateWithoutWhereFails ==
    [][\A n \in TableNames : \A colName \in UpdateColumns(n) :
          \A value \in UpdateLiterals(n, colName) :
             (/\ tables[n].exists
              /\ \E p \in PrimaryKeyColumns(tables[n].header) :
                    tables[n].header[p].colName = colName
              /\ last'.restrictions = <<>>
              /\ UpdateOf(n, colName, value))
             => (/\ last'.err = "InvalidQuery: Primary key must be unique"
                 /\ tables' = tables
                 /\ tmps' = tmps)]_vars

\* C19 witness: UPDATE t SET id=3 ; was rejected on a table t of one row,
\* where the new key would have been unique.
C19_KeyUpdateOfOneRowRejected ==
    /\ last.type = "update"
    /\ last.tableName = Name_t
    /\ last.restrictions = <<>>
    /\ last.err = "InvalidQuery: Primary key must be unique"
    /\ Len(tables[Name_t].rows) = 1
    /\ ~tmps[Name_t].exists

\* C20: a call of insertRow, updateRows or deleteRows on a JoinedTable
\* throws, and leaves the files of the two parent tables and every field of
\* the joined table (the positions of its parents, its maps, its filters,
\* the rows already pulled) as they were.
C20_JoinedModifiersThrow ==
    [][(stream'.call \in {"insertRow", "updateRows", "deleteRows"}
        /\ stream' # stream)
       => (/\ stream'.thrown # ""
           /\ stream'.table = stream.table
           /\ stream'.out = stream.out
           /\ stream'.pc = stream.pc
           /\ tables' = tables
           /\ tmps' = tmps)]_vars

\* C20 witness: insertRow was called, and threw, on a join of two rows of u
\* with the rows of t from which one row is pulled and one is still to come.
C20_InsertRowThrewMidStream ==
    /\ stream.pc = "joined"
    /\ stream.call = "insertRow"
    /\ stream.thrown = "logic_error: Cannot insert rows in a joined table"
    /\ Len(stream.out) = 1
    /\ stream.table.probePos = 1
    /\ Len(tables[stream.table.probe].rows) = 2

ParenFree(words) ==
    \A k \in 1..Len(words) : words[k] # <<"(">> /\ words[k] # <<")">>

\* A1 o1 (A2 o2 (... An)) for the atoms and connectives from words[i] on
RECURSIVE RightFold(_, _, _)
RightFold(words, i, row) ==
    IF i + 3 > Len(words) THEN AtomHolds(words, i, row)
    ELSE IF words[i + 3] = W_and
    THEN AtomHolds(words, i, row) /\ RightFold(words, i + 4, row)
    ELSE AtomHolds(words, i, row) \/ RightFold(words, i + 4, row)

\* C30: a clause without parentheses A1 o1 A2 ... An is evaluated grouped
\* to the right, A1 o1 (A2 o2 (... An)), `and` and `or` having one
\* precedence level.
C30_ParenFreeIsRightFold ==
    (/\ where.pc = "applied"
     /\ where.clause # <<>>
     /\ ParenFree(split(where.clause, " ", TRUE)))
    => (/\ where.err = ""
        /\ where.val = RightFold(split(where.clause, " ", TRUE), 1, where.row))

\* C30 witness: `a = 1 and b = 1 or c = 1` applied to the row (0, 1, 1) is
\* false, as `a = 1 and (b = 1 or c = 1)` is; with `and` binding tighter it
\* would be true.
C30_AndOrAppliedRightToLeft ==
    /\ where.pc = "applied"
    /\ where.clause = ClauseText(AtomWords(1) \o <<W_and>> \o AtomWords(2)
                                 \o <<W_or>> \o AtomWords(3))
    /\ where.row[1] = <<"0">> /\ where.row[2] = <<"1">> /\ where.row[3] = <<"1">>
    /\ where.err = ""
    /\ ~where.val

(***************************************************************************)
(* Properties of the rewrite of a table file by UPDATE and DELETE.         *)
(***************************************************************************)
\* Row i of the file of table n passes the WHERE clause `restrictions`
PassesWhere(n, restrictions, i) ==
    apply(parseRestriction(restrictions).restriction,
          ReadRow(Schema(n, tables[n].header), tables[n].rows[i])).val

\* The cells of row i of table n with the cell of column colName replaced
\* by the formatted value
Substituted(n, i, colName, value) ==
    [c \in 1..Len(tables[n].rows[i]) |->
        IF tables[n].header[c].colName = colName
        THEN formatColumnValue(tables[n].header[c].colType, value).str
        ELSE tables[n].rows[i][c]]

\* C26: the frame of UPDATE.  A successful UPDATE keeps the schema header,
\* the number of rows and their order; a row that fails the restriction
\* keeps all its cells; in a row that passes, only the column named in SET
\* changes, and it takes the formatted new value.
C26_UpdateFrame ==
    [][\A n \in TableNames : \A colName \in UpdateColumns(n) :
          \A value \in UpdateLiterals(n, colName) :
             (last'.err = "" /\ UpdateOf(n, colName, value))
             => (/\ tables'[n].exists
                 /\ tables'[n].header = tables[n].header
                 /\ Len(tables'[n].rows) = Len(tables[n].rows)
                 /\ \A i \in 1..Len(tables[n].rows) :
                       tables'[n].rows[i] =
                          IF PassesWhere(n, last'.restrictions, i)
                          THEN Substituted(n, i, colName, value)
                          ELSE tables[n].rows[i])]_vars

\* C26 witness: UPDATE t SET id=3 WHERE id = 1 succeeded on the rows
\* (1, abc), (2, abc): the first row holds 3, the second is as it was.
C26_FirstRowOfTwoUpdated ==
    /\ last.type = "update"
    /\ last.tableName = Name_t
    /\ last.restrictions = Where_id_eq_1
    /\ last.err = ""
    /\ tables[Name_t].header = Header(Name_t)
    /\ tables[Name_t].rows = <<<<<<"3">>, <<"a", "b", "c">>>>,
                               <<<<"2">>, <<"a", "b", "c">>>>>>

\* a DELETE step on table n
DeleteOf(n) ==
    /\ last'.type = "delete"
    /\ last'.tableName = n
    /\ Delete(n, last'.restrictions)

\* The rows of the file of table n, from row i on, that fail the WHERE
\* clause, in file order
RECURSIVE RowsFailingFrom(_, _, _)
RowsFailingFrom(n, restrictions, i) ==
    IF i > Len(tables[n].rows) THEN <<>>
    ELSE (IF PassesWhere(n, restrictions, i) THEN <<>> ELSE <<tables[n].rows[i]>>)
         \o RowsFailingFrom(n, restrictions, i + 1)

\* C27: after a successful DELETE the table file holds the unchanged schema
\* header followed by exactly the rows that failed the restriction, with
\* their cells unchanged and in their original order; without a WHERE
\* clause no row is left.
C27_DeleteKeepsFailingRows ==
    [][\A n \in TableNames :
          (last'.err = "" /\ DeleteOf(n))
          => (/\ tables'[n].exists
              /\ tables'[n].header = tables[n].header
              /\ tables'[n].rows = RowsFailingFrom(n, last'.restrictions, 1)
              /\ (last'.restrictions = <<>> => tables'[n].rows = <<>>))]_vars

\* C27 witness: DELETE FROM t WHERE id = 1 succeeded and left the one row
\* (2, abc) under the header of t.
C27_OtherRowLeft ==
    /\ last.type = "delete"
    /\ last.tableName = Name_t
    /\ last.restrictions = Where_id_eq_1
    /\ last.err = ""
    /\ tables[Name_t].header = Header(Name_t)
    /\ tables[Name_t].rows = <<<<<<"2">>, <<"a", "b", "c">>>>>>

\* The join of `SELECT * FROM t , u WHERE t.id = u.b ;` is read to its end
EquiJoinEnded ==
    /\ stream.pc = "end"
    /\ last.type = "select"
    /\ last.restrictions = Where_t_id_eq_u_b
    /\ ~stream.table.distinct
    /\ stream.table.colFilter = <<>>

\* The key cells of the rows of the build table are pairwise distinct and
\* none is null
UniqueBuildKeys ==
    LET rows == tables[stream.table.build].rows
    IN /\ \A k \in 1..Len(rows) : JoinKey(stream.table.build, rows[k]) # NULL_VALUE
       /\ \A j, k \in 1..Len(rows) :
             j # k => JoinKey(stream.table.build, rows[j])
                         # JoinKey(stream.table.build, rows[k])

\* The pairs <<i, k>> of a probe row and a build row with equal key cells
EqualKeyPairs ==
    {pr \in (1..Len(tables[stream.table.probe].rows))
               \X (1..Len(tables[stream.table.build].rows)) :
        JoinKey(stream.table.probe, tables[stream.table.probe].rows[pr[1]])
           = JoinKey(stream.table.build, tables[stream.table.build].rows[pr[2]])}

\* C29: equi-join under unique keys.  When t and u are selected with the
\* single WHERE condition `t.id = u.b` and the key cells of the build table
\* are pairwise distinct and not null, the rows emitted are exactly the
\* pairs of a probe row and a build row with equal key cells, each pair
\* once, the cells of the probe row before those of the build row.
C29_EquiJoinOfUniqueKeys ==
    (EquiJoinEnded /\ UniqueBuildKeys)
    => (/\ Len(stream.out) = Cardinality(EqualKeyPairs)
        /\ \E f \in [1..Len(stream.out) -> EqualKeyPairs] :
              /\ \A i, j \in 1..Len(stream.out) : i # j => f[i] # f[j]
              /\ \A i \in 1..Len(stream.out) :
                    stream.out[i] = tables[stream.table.probe].rows[f[i][1]]
                                    \o tables[stream.table.build].rows[f[i][2]])

\* orderBy was called on the joined table of the stream, and rows are
\* pulled from it
OrderedJoinPulled ==
    /\ stream.pc \in {"joined", "end", "failed"}
    /\ stream.orderBy # <<>>
    /\ stream.call = ">>"

\* The cells of the column `name` in a row line of the join of t and u
NameCell(table, line) ==
    IF table.probe = Name_t THEN line[2] ELSE line[Len(Header(Name_u)) + 2]

\* C28: after ORDER BY on a JoinedTable, with or without a WHERE restriction
\* set on it, pulling rows raises no error, yields the joined rows in sorted
\* order and then reaches the end of the stream, where the has-rows test is
\* false.
C28_OrderedJoinEnds ==
    OrderedJoinPulled
    => (/\ stream.thrown = ""
        /\ stream.pc # "failed"
        /\ \A k \in 1..(Len(stream.table.tableStream.rows) - 1) :
              ~StrLess(NameCell(stream.table, stream.table.tableStream.rows[k + 1]),
                       NameCell(stream.table, stream.table.tableStream.rows[k]))
        /\ (stream.pc = "end" /\ ~stream.table.distinct /\ stream.table.colFilter = <<>>)
              => stream.out = stream.table.tableStream.rows)

(***************************************************************************)
(* A Table object on its own: it is constructed on the file of t or on a   *)
(* stream fetched from a URL, and its modifiers are called.  The object is *)
(* the record of the fields the modifiers read: isFromURL and tableName    *)
(* (rowCount, which they only count up and down, is left out).             *)
(***************************************************************************)
Url_t == <<"h", "t", "t", "p", ":", "/", "/", "h", "/", "t">>
HttpPrefix == <<"h", "t", "t", "p", ":", "/", "/">>

\* tableName.rfind("/"), 0 when there is none
LastSlash(tableName) ==
    IF \E i \in 1..Len(tableName) : tableName[i] = "/"
    THEN CHOOSE i \in 1..Len(tableName) :
            /\ tableName[i] = "/"
            /\ \A j \in (i + 1)..Len(tableName) : tableName[j] # "/"
    ELSE 0

\* Table::Table(tableStream, tableName, schema)
NewTable(tableName) ==
    IF Len(tableName) >= Len(HttpPrefix)
       /\ SubSeq(tableName, 1, Len(HttpPrefix)) = HttpPrefix
    THEN [isFromURL |-> TRUE,
          tableName |-> SubSeq(tableName, LastSlash(tableName) + 1, Len(tableName))]
    ELSE [isFromURL |-> FALSE, tableName |-> tableName]

\* Table::insertRow on the object: [err, tables, table]
Table_insertRow(files, table, values, ub) ==
    IF table.isFromURL
    \* `if (isFromURL) { return; }`
    THEN [err |-> "", tables |-> files, table |-> table]
    ELSE With(insertRow(files, table.tableName, values, ub), LAMBDA r :
            [err |-> r.err, tables |-> r.tables, table |-> table])

\* Table::updateRows on the object: [err, tables, tmps, table]
Table_updateRows(files, temps, table, restriction, colName, value, ub, pref) ==
    IF table.isFromURL
    THEN [err |-> "InvalidQuery: Cannot update a remote table",
          tables |-> files, tmps |-> temps, table |-> table]
    ELSE With(updateRows(files, temps, table.tableName, restriction, colName, value,
                         ub, pref),
              LAMBDA r : [err |-> r.err, tables |-> r.tables, tmps |-> r.tmps,
                          table |-> table])

\* Table::deleteRows on the object: [err, tables, tmps, table]
Table_deleteRows(files, temps, table, restriction, pref) ==
    IF table.isFromURL
    THEN [err |-> "InvalidQuery: Cannot delete from a remote table",
          tables |-> files, tmps |-> temps, table |-> table]
    ELSE With(deleteRows(files, temps, table.tableName, restriction, pref),
              LAMBDA r : [err |-> r.err, tables |-> r.tables, tmps |-> r.tmps,
                          table |-> table])

InitTable ==
    /\ tables = [n \in TableNames |->
                    IF n = Name_t THEN File(Header(Name_t), <<>>) ELSE NoFile]
    /\ tmps = [n \in TableNames |-> NoFile]
    /\ last = Last("", <<>>, <<>>, <<>>, "", <<>>)
    /\ where = NoWhere
    /\ stream = NoStream

\* The object is constructed under the name tableName
ConstructTable(tableName) ==
    /\ stream.pc = "none"
    /\ stream' = [NoStream EXCEPT !.pc = "open", !.table = NewTable(tableName),
                                  !.call = "Table"]
    /\ UNCHANGED <<tables, tmps, last, where>>

\* table.insertRow(row), the row made of values
CallInsertRow(values, ub) ==
    /\ stream.pc = "open"
    /\ Len(tables[Name_t].rows) < MaxRows
    /\ \E r \in {Table_insertRow(tables, stream.table, values, ub)} :
          /\ tables' = r.tables
          /\ stream' = [stream EXCEPT !.table = r.table, !.call = "insertRow",
                                      !.thrown = r.err]
    /\ UNCHANGED <<tmps, last, where>>

\* table.setRestrictions(restrictions).updateRows({colName: value})
CallUpdateRows(colName, value, restrictions, ub) ==
    /\ stream.pc = "open"
    /\ parseRestriction(restrictions).err = ""
    /\ \E pref \in Favoured(DirFiles(tables, tmps)) :
          \E r \in {Table_updateRows(tables, tmps, stream.table,
                                     parseRestriction(restrictions).restriction,
                                     colName, value, ub, pref)} :
             /\ tables' = r.tables
             /\ tmps' = r.tmps
             /\ stream' = [stream EXCEPT !.table = r.table, !.call = "updateRows",
                                         !.thrown = r.err]
    /\ UNCHANGED <<last, where>>

\* table.setRestrictions(restrictions).deleteRows()
CallDeleteRows(restrictions) ==
    /\ stream.pc = "open"
    /\ parseRestriction(restrictions).err = ""
    /\ \E pref \in Favoured(DirFiles(tables, tmps)) :
          \E r \in {Table_deleteRows(tables, tmps, stream.table,
                                     parseRestriction(restrictions).restriction,
                                     pref)} :
             /\ tables' = r.tables
             /\ tmps' = r.tmps
             /\ stream' = [stream EXCEPT !.table = r.table, !.call = "deleteRows",
                                         !.thrown = r.err]
    /\ UNCHANGED <<last, where>>

NextTable ==
    \/ \E tableName \in {Name_t, Url_t} : ConstructTable(tableName)
    \/ \E values \in InsertValues(Name_t), ub \in ReadOutcomes(Name_t) :
          CallInsertRow(values, ub)
    \/ \E colName \in UpdateColumns(Name_t), restrictions \in Wheres(Name_t),
          ub \in ReadOutcomes(Name_t) :
             \E value \in UpdateLiterals(Name_t, colName) :
                CallUpdateRows(colName, value, restrictions, ub)
    \/ \E restrictions \in Wheres(Name_t) : CallDeleteRows(restrictions)

SpecTable == InitTable /\ [][NextTable]_vars

\* C21: on a remote (URL-sourced) table every modifier, insertRow,
\* updateRows and deleteRows, fails with InvalidQuery; none of them returns
\* successfully.
C21_RemoteModifiersFail ==
    (/\ stream.pc = "open"
     /\ stream.table.isFromURL
     /\ stream.call \in {"insertRow", "updateRows", "deleteRows"})
    => stream.thrown \in InvalidQueries

(***************************************************************************)
(* The rewrite of the file of t by UPDATE and DELETE taken step by step,   *)
(* one statement of Table::writeUpdatedRows or Table::writeUndeletedRows   *)
(* at a time, with a reader that opens and reads the file of t between two *)
(* steps.  `stream` is the writer: its position, the operation, the row it *)
(* is at and what its std::ofstream `out` still buffers; tmps holds what   *)
(* the temp file holds on disk, and `last` what the reader read.           *)
(***************************************************************************)
\* An ofstream buffer that holds nothing
NoBuffer == [hasHeader |-> FALSE, header |-> <<>>, rows |-> <<>>]

\* The file once the buffer is written to it
flush(file, buf) ==
    File(IF buf.hasHeader THEN buf.header ELSE file.header, file.rows \o buf.rows)

\* A variant of endl that ends the line and leaves it in the buffer, as
\* `out << "\n"` does
newline(file, buf) == [file |-> file, buf |-> buf]

\* `out << std::endl` on a stream that buffers buf, the line included: the
\* buffer is flushed to the file.  [file, buf]
endl(file, buf) == [file |-> flush(file, buf), buf |-> NoBuffer]

\* No rewrite in progress
NoWriter ==
    [pc |-> "none", op |-> "", colName |-> <<>>, value |-> <<>>, newValue |-> <<>>,
     restrictions |-> <<>>, restriction |-> <<>>, pre |-> NoFile, i |-> 0,
     buf |-> NoBuffer, thrown |-> ""]

\* The directories the rewrites start in: t holds up to MaxRows rows of
\* distinct keys and u at most one row, which references rows of t
RewriteDirectories ==
    {dir \in {[n \in TableNames |->
                 IF n = Name_t THEN File(Header(Name_t), tr)
                 ELSE IF n = Name_u THEN File(Header(Name_u), ur)
                 ELSE NoFile] :
                    tr \in SelectedLines(Name_t, MaxRows),
                    ur \in SelectedLines(Name_u, 1)} :
        /\ \A i, j \in 1..Len(dir[Name_t].rows) :
              i # j => dir[Name_t].rows[i][1] # dir[Name_t].rows[j][1]
        /\ \A i \in 1..Len(dir[Name_u].rows) : \A c \in 1..2 :
              dir[Name_u].rows[i][c] # NULL_VALUE
                 => \E k \in 1..Len(dir[Name_t].rows) :
                       dir[Name_t].rows[k][1] = dir[Name_u].rows[i][c]}

InitRewrite ==
    /\ tables \in RewriteDirectories
    /\ tmps = [n \in TableNames |-> NoFile]
    /\ last = Last("", <<>>, <<>>, <<>>, "", <<>>)
    /\ where = NoWhere
    /\ stream = NoWriter

\* What the loop of Table::updateRows throws for the one entry of the
\* UpdateMap before anything is written ("" for nothing)
updateRowsThrown(files, tableName, restriction, colName, value, ub) ==
    LET schema == Schema(tableName, files[tableName].header)
        index == getColumnIndex(schema, colName)
    IN IF index = 0 THEN "invalid_argument"
       ELSE IF schema[index].primaryKey /\ restriction = <<>>
       THEN "InvalidQuery: Primary key must be unique"
       ELSE IF validateColumnValue(files, files[tableName], schema[index], value,
                                   index - 1, ub) # ""
       THEN validateColumnValue(files, files[tableName], schema[index], value,
                                index - 1, ub)
       ELSE formatColumnValue(schema[index].colType, value).err

\* The value Table::updateRows leaves in the UpdateMap
updateRowsValue(files, tableName, colName, value) ==
    LET schema == Schema(tableName, files[tableName].header)
    IN formatColumnValue(schema[getColumnIndex(schema, colName)].colType, value).str

\* executeUpdateQuery to the call of writeUpdatedRows
BeginUpdate(colName, value, restrictions, ub) ==
    /\ stream.pc = "none"
    /\ parseRestriction(restrictions).err = ""
    /\ \E e \in {updateRowsThrown(tables, Name_t, parseRestriction(restrictions).restriction,
                                  colName, value, ub)} :
          stream' = [NoWriter EXCEPT
                        !.pc = IF e = "" THEN "begun" ELSE "failed",
                        !.op = "update", !.colName = colName, !.value = value,
                        !.newValue = IF e = ""
                                     THEN updateRowsValue(tables, Name_t, colName, value)
                                     ELSE <<>>,
                        !.restrictions = restrictions,
                        !.restriction = parseRestriction(restrictions).restriction,
                        !.pre = tables[Name_t], !.thrown = e]
    /\ UNCHANGED <<tables, tmps, last, where>>

\* executeDeleteQuery to the call of writeUndeletedRows
BeginDelete(restrictions) ==
    /\ stream.pc = "none"
    /\ parseRestriction(restrictions).err = ""
    /\ stream' = [NoWriter EXCEPT
                     !.pc = "begun", !.op = "delete", !.restrictions = restrictions,
                     !.restriction = parseRestriction(restrictions).restriction,
                     !.pre = tables[Name_t]]
    /\ UNCHANGED <<tables, tmps, last, where>>

\* `std::ofstream out(tmpFilePath); out << schema.toString() << std::endl;`
WriteHeader ==
    /\ stream.pc = "begun"
    /\ \E o \in {endl(File(<<>>, <<>>),
                      [hasHeader |-> TRUE, header |-> tables[Name_t].header,
                       rows |-> <<>>])} :
          /\ tmps' = [tmps EXCEPT ![Name_t] = o.file]
          /\ stream' = [stream EXCEPT !.pc = "rows", !.i = 1, !.buf = o.buf]
    /\ UNCHANGED <<tables, last, where>>

\* What one turn of the loop of writeUpdatedRows does with the row read, a
\* being what restriction.apply(row) returned or threw and c the cells
\* made for a row that passes: [err, file, buf], the temp file and the
\* buffer; an exception destroys the stream, which flushes what it buffers.
updatedRowWritten(file, buf, line, a, c) ==
    IF a.err # "" THEN [err |-> a.err, file |-> flush(file, buf), buf |-> NoBuffer]
    ELSE IF ~a.val
    THEN With(endl(file, [buf EXCEPT !.rows = Append(@, line)]),
              LAMBDA o : [err |-> "", file |-> o.file, buf |-> o.buf])
    ELSE IF c.err # ""
    THEN [err |-> c.err, buf |-> NoBuffer,
          file |-> flush(file, IF c.cells = <<>> THEN buf
                               ELSE [buf EXCEPT !.rows = Append(@, c.cells)])]
    ELSE With(endl(file, [buf EXCEPT !.rows = Append(@, c.cells)]),
              LAMBDA o : [err |-> "", file |-> o.file, buf |-> o.buf])

\* What one turn of the loop of writeUndeletedRows does, a being what
\* restriction.apply(row) returned or threw and e what the check of a row
\* that passes threw: [err, file, buf]
undeletedRowWritten(file, buf, line, a, e) ==
    IF a.err # "" THEN [err |-> a.err, file |-> flush(file, buf), buf |-> NoBuffer]
    ELSE IF ~a.val
    THEN With(endl(file, [buf EXCEPT !.rows = Append(@, line)]),
              LAMBDA o : [err |-> "", file |-> o.file, buf |-> o.buf])
    \* catch: std::remove(tmpFilePath), throw
    ELSE IF e # "" THEN [err |-> e, file |-> NoFile, buf |-> NoBuffer]
    ELSE [err |-> "", file |-> file, buf |-> buf]

\* One turn of `while (*tableStream >> row)`
WriteRow ==
    /\ stream.pc = "rows"
    /\ stream.i <= Len(tables[Name_t].rows)
    /\ \E pref \in Favoured(DirFiles(tables, tmps)) :
          \E w \in {IF stream.op = "update"
                    THEN updatedRowWritten(tmps[Name_t], stream.buf,
                            tables[Name_t].rows[stream.i],
                            apply(stream.restriction,
                                  ReadRow(Schema(Name_t, tables[Name_t].header),
                                          tables[Name_t].rows[stream.i])),
                            updatedCellsFrom(DirFiles(tables, tmps),
                                ReadRow(Schema(Name_t, tables[Name_t].header),
                                        tables[Name_t].rows[stream.i]),
                                1, stream.colName, stream.newValue, pref, <<>>))
                    ELSE undeletedRowWritten(tmps[Name_t], stream.buf,
                            tables[Name_t].rows[stream.i],
                            apply(stream.restriction,
                                  ReadRow(Schema(Name_t, tables[Name_t].header),
                                          tables[Name_t].rows[stream.i])),
                            deletedRowCheckFrom(DirFiles(tables, tmps),
                                ReadRow(Schema(Name_t, tables[Name_t].header),
                                        tables[Name_t].rows[stream.i]),
                                1, pref))} :
             /\ tmps' = [tmps EXCEPT ![Name_t] = w.file]
             /\ stream' = [stream EXCEPT
                              !.pc = IF w.err = "" THEN "rows" ELSE "failed",
                              !.i = @ + 1, !.buf = w.buf, !.thrown = w.err]
    /\ UNCHANGED <<tables, last, where>>

\* `std::rename(tmpFilePath, tableStreamPath)` once the loop has ended
Rename ==
    /\ stream.pc = "rows"
    /\ stream.i > Len(tables[Name_t].rows)
    /\ tables' = [tables EXCEPT ![Name_t] = tmps[Name_t]]
    /\ tmps' = [tmps EXCEPT ![Name_t] = NoFile]
    /\ stream' = [stream EXCEPT !.pc = "renamed"]
    /\ UNCHANGED <<last, where>>

\* The function returns and `out` is destroyed: what it still buffers goes
\* to the file it is open on, by now the file of t
Close ==
    /\ stream.pc = "renamed"
    /\ tables' = [tables EXCEPT ![Name_t] = flush(@, stream.buf)]
    /\ stream' = [stream EXCEPT !.pc = "done", !.buf = NoBuffer]
    /\ UNCHANGED <<tmps, last, where>>

\* While the rewrite is in progress another process opens the file of t and
\* reads it to its end
Read ==
    /\ stream.pc \in {"begun", "rows", "renamed"}
    /\ last' = Last("read", Name_t, <<>>, <<>>, "", tables[Name_t])
    /\ UNCHANGED <<tables, tmps, where, stream>>

NextRewrite ==
    \/ \E colName \in UpdateColumns(Name_t), restrictions \in Wheres(Name_t),
          ub \in ReadOutcomes(Name_t) :
             \E value \in UpdateLiterals(Name_t, colName) :
                BeginUpdate(colName, value, restrictions, ub)
    \/ \E restrictions \in Wheres(Name_t) : BeginDelete(restrictions)
    \/ WriteHeader
    \/ WriteRow
    \/ Rename
    \/ Close
    \/ Read

SpecRewrite == InitRewrite /\ [][NextRewrite]_vars

\* The files of t the operation of the writer leaves when it is made in one
\* step on the directory it started in
PostFiles ==
    LET pre == [tables EXCEPT ![Name_t] = stream.pre]
        none == [n \in TableNames |-> NoFile]
    IN {IF stream.op = "update"
        THEN executeUpdateQuery(pre, none, Name_t, stream.colName, stream.value,
                                stream.restrictions, ub, pref).tables[Name_t]
        ELSE executeDeleteQuery(pre, none, Name_t, stream.restrictions,
                                pref).tables[Name_t] :
           ub \in ReadOutcomes(Name_t), pref \in {Referenced, "invalid_argument"}}

\* C22: a reader that opens the table file at any moment while an UPDATE or
\* DELETE on the table is in progress reads the complete content from
\* before the operation or the complete content after it, never a partly
\* written file: when the temp file is renamed over the table file it is
\* completely written, and nothing is left in the buffer of the stream.
C22_ReaderSeesPreOrPost ==
    /\ last.type = "read" => (last.out = stream.pre \/ last.out \in PostFiles)
    /\ stream.pc \in {"renamed", "done"}
          => (stream.buf = NoBuffer /\ tables[Name_t] \in PostFiles)

\* C22 witness: between the rename and the return of an UPDATE of a table
\* of two rows the reader has read a file of two rows that is not the one
\* from before the operation.
C22_ReadAfterRename ==
    /\ stream.pc = "renamed"
    /\ stream.op = "update"
    /\ last.type = "read"
    /\ last.out # stream.pre
    /\ Len(stream.pre.rows) = 2
    /\ Len(last.out.rows) = 2


(***************************************************************************)
(* Schema: the line of a schema and the schema of a line.                  *)
(***************************************************************************)
\* the columns of the schemas that are written and read back
MaxColumns == 2

\* The metadata a column of these schemas can hold: two names, a type
\* without and two with a length, no reference or a reference to a column
\* of another table, and every pair of flags.
SchemaColumns ==
    {HeaderColumn(colName, colType, references, primaryKey, notNull) :
        colName \in {Col_id, Col_name},
        colType \in {T_int, VarcharType(3)},
        references \in {<<>>, Name_u \o <<".">> \o Col_b},
        primaryKey \in BOOLEAN, notNull \in BOOLEAN}

\* The schemas: Schema() followed by up to MaxColumns calls of addColumn
Schemas == UNION {[1..k -> SchemaColumns] : k \in 0..MaxColumns}

\* operator>>(istream, ColumnMetadata) on a stream that holds no token: the
\* first extraction sets failbit, the four after it store nothing, and the
\* two flags keep what the default constructor left in them, which is
\* whatever the memory held.
UnreadMetadata ==
    {HeaderColumn(<<>>, <<>>, <<>>, primaryKey, notNull) :
        primaryKey \in BOOLEAN, notNull \in BOOLEAN}

\* The reads of one tab-separated text of a line
MetadataReads(s) ==
    IF skipSpaces(s, 1) > Len(s) THEN UnreadMetadata ELSE {ReadMetadata(s)}

\* Schema::Schema(tableName, s): the schemas the loop over the texts of
\* the line can build
SchemasOfStrings(tableName, metadataStrings) ==
    {Schema(tableName, header) :
        header \in {h \in [1..Len(metadataStrings) -> UNION {MetadataReads(metadataStrings[i]) : i \in 1..Len(metadataStrings)}] :
                       \A i \in 1..Len(metadataStrings) : h[i] \in MetadataReads(metadataStrings[i])}}

SchemasOfLine(tableName, s) == SchemasOfStrings(tableName, split(s, "\t", FALSE))

NoSchema == [pc |-> "none", schema |-> <<>>, line |-> <<>>, read |-> <<>>]

InitSchema ==
    /\ tables = [n \in TableNames |-> NoFile]
    /\ tmps = [n \in TableNames |-> NoFile]
    /\ last = Last("", <<>>, <<>>, <<>>, "", <<>>)
    /\ where = NoWhere
    /\ \E header \in Schemas :
          stream = [NoSchema EXCEPT !.pc = "schema", !.schema = Schema(Name_t, header)]

\* schema.toString()
SchemaToString ==
    /\ stream.pc = "schema"
    /\ stream' = [stream EXCEPT !.pc = "line", !.line = toString(stream.schema)]
    /\ UNCHANGED <<tables, tmps, last, where>>

\* Schema(tableName, line) of the line written
SchemaFromString ==
    /\ stream.pc = "line"
    /\ \E schema \in SchemasOfLine(Name_t, stream.line) :
          stream' = [stream EXCEPT !.pc = "read", !.read = schema]
    /\ UNCHANGED <<tables, tmps, last, where>>

NextSchema ==
    \/ SchemaToString
    \/ SchemaFromString

SpecSchema == InitSchema /\ [][NextSchema]_vars

\* C24: the schema built from the line toString wrote for a schema S, of
\* any number of columns, types, references and flags, equals S column for
\* column.
C24_SchemaRoundTrip ==
    stream.pc = "read" => stream.read = stream.schema

\* The same for the schemas of one column at least
C24_ColumnsRoundTrip ==
    (stream.pc = "read" /\ stream.schema # <<>>) => stream.read = stream.schema

\* A schema of two columns, one referencing and not null, is read back
C24_TwoColumnsRead ==
    /\ stream.pc = "read"
    /\ Len(stream.schema) = 2
    /\ stream.schema[2].references # <<>>
    /\ stream.schema[2].notNull
    /\ stream.schema[1].primaryKey


(***************************************************************************)
(* Row: the line of a row and the row of a line.                           *)
(***************************************************************************)
\* A row line without the quotes of std::quoted
plainColumn(colValue) == colValue

\* operator<<(ostream, Column): the value between quotes, a backslash
\* before each quote and backslash of it
writeColumn(colValue) == quoted(colValue)

\* operator<<(ostream, Row): the columns, a space between two of them
RECURSIVE writeRow(_)
writeRow(columns) ==
    IF columns = <<>> THEN <<>>
    ELSE IF Len(columns) = 1 THEN writeColumn(columns[1])
    ELSE writeColumn(columns[1]) \o <<" ">> \o writeRow(Tail(columns))

\* rowScanner >> std::quoted(colValue) once the opening quote is read, from
\* index i on: a backslash gives the character after it, the closing quote
\* ends the value, and the end of the line before it sets failbit.
\* [ok, str, next]
RECURSIVE readQuotedColumn(_, _, _)
readQuotedColumn(s, i, str) ==
    IF i > Len(s) THEN [ok |-> FALSE, str |-> str, next |-> i]
    ELSE IF s[i] = "\\"
    THEN (IF i + 1 > Len(s) THEN [ok |-> FALSE, str |-> str, next |-> i + 1]
          ELSE readQuotedColumn(s, i + 2, Append(str, s[i + 1])))
    ELSE IF s[i] = "\"" THEN [ok |-> TRUE, str |-> str, next |-> i + 1]
    ELSE readQuotedColumn(s, i + 1, Append(str, s[i]))

\* rowScanner >> std::quoted(colValue) at index i, which holds a character
\* other than a space: [ok, str, next]
readColumn(s, i) ==
    IF s[i] = "\"" THEN readQuotedColumn(s, i + 1, <<>>)
    ELSE With(readWordFrom(s, i, <<>>), LAMBDA w :
            [ok |-> TRUE, str |-> w.str, next |-> w.next])

\* The loop `while (rowScanner >> std::quoted(colValue))` of
\* operator>>(istream, Row) from index i on: the values pushed
RECURSIVE readColumnsFrom(_, _, _)

readColumnsAfter(s, pushed, r) ==
    IF r.ok THEN readColumnsFrom(s, r.next, Append(pushed, r.str)) ELSE pushed

readColumnsAt(s, i, pushed) ==
    IF i > Len(s) THEN pushed ELSE readColumnsAfter(s, pushed, readColumn(s, i))

readColumnsFrom(s, i, pushed) == readColumnsAt(s, skipSpaces(s, i), pushed)

\* operator>>(istream, Row) on the line rowLine: each value with the
\* metadata of its position in the row's schema
readRowLine(schema, rowLine) == ReadRow(schema, readColumnsFrom(rowLine, 1, <<>>))

\* The table the rows are inserted into: an int key, a varchar(3) and a
\* char(2) column
RowHeader ==
    <<HeaderColumn(Col_id, T_int, <<>>, TRUE, TRUE),
      HeaderColumn(Col_name, VarcharType(3), <<>>, FALSE, FALSE),
      HeaderColumn(Col_a, CharType(2), <<>>, FALSE, FALSE)>>

\* The value literals of the INSERT queries for the column at index i of
\* the schema: numbers and a text for the key; for the two text columns
\* NULL, the empty text, texts shorter and longer than the limit, and texts
\* that hold a space, a quote or a backslash.
RowLiterals(i) ==
    IF i = 1 THEN {<<"1">>, <<"1", "2">>, <<"x">>, NULL_VALUE}
    ELSE {NULL_VALUE, <<"\"", "\"">>, <<"\"", "a", "\"">>,
          <<"\"", "a", "b", "c", "d", "\"">>, <<"\"", "a", " ", "b", "\"">>,
          <<"\"", " ", "\"">>, <<"'", "a", "\\", "\"", "'">>,
          <<"\"", "\\", "\\", "\"">>, <<"a", "b">>}

RowValues ==
    {values \in [1..Len(RowHeader) -> UNION {RowLiterals(i) : i \in 1..Len(RowHeader)}] :
        \A i \in 1..Len(RowHeader) : values[i] \in RowLiterals(i)}

NoRow == [pc |-> "none", values |-> <<>>, thrown |-> "", row |-> <<>>,
          line |-> <<>>, read |-> <<>>]

InitRow ==
    /\ tables = [n \in TableNames |->
                    IF n = Name_t THEN File(RowHeader, <<>>) ELSE NoFile]
    /\ tmps = [n \in TableNames |-> NoFile]
    /\ last = Last("", <<>>, <<>>, <<>>, "", <<>>)
    /\ where = NoWhere
    /\ stream = NoRow

\* insertIntoTable with the values of the query in schema order: the row is
\* validated and formatted and its line appended to the file
InsertLine(values) ==
    /\ stream.pc = "none"
    /\ \E r \in {insertRow(tables, Name_t, values, "garbage")} :
          /\ tables' = r.tables
          /\ stream' = IF r.err # ""
                       THEN [stream EXCEPT !.pc = "thrown", !.values = values,
                                           !.thrown = r.err]
                       ELSE [stream EXCEPT !.pc = "written", !.values = values,
                                           !.row = r.tables[Name_t].rows[1],
                                           !.line = writeRow(r.tables[Name_t].rows[1])]
    /\ UNCHANGED <<tmps, last, where>>

\* tableFile >> row of the line written
ReadLine ==
    /\ stream.pc = "written"
    /\ stream' = [stream EXCEPT !.pc = "read",
                                !.read = readRowLine(Schema(Name_t, RowHeader), stream.line)]
    /\ UNCHANGED <<tables, tmps, last, where>>

\* The next query is read
NextLine ==
    /\ stream.pc \in {"thrown", "read"}
    /\ tables' = [tables EXCEPT ![Name_t].rows = <<>>]
    /\ stream' = NoRow
    /\ UNCHANGED <<tmps, last, where>>

NextRow ==
    \/ \E values \in RowValues : InsertLine(values)
    \/ ReadLine
    \/ NextLine

SpecRow == InitRow /\ [][NextRow]_vars

\* A value literal that holds no backslash and no quote but the two
\* around it
PlainLiteral(value) ==
    /\ \A k \in 1..Len(value) : value[k] # "\\"
    /\ \A k \in 2..(Len(value) - 1) : value[k] # "\"" /\ value[k] # "'"
    /\ Len(value) # 1

\* The text of a plain literal: what its quotes enclose
LiteralText(value) ==
    IF value # <<>> /\ (value[1] = "\"" \/ value[1] = "'") /\ value[Len(value)] = value[1]
    THEN SubSeq(value, 2, Len(value) - 1)
    ELSE value

\* The canonical form of a text in a column: padded with spaces to 2 in the
\* char(2) column, cut to 3 in the varchar(3) column (and to 2 in the
\* char(2) column), as it is in the int column
CanonicalForm(colType, text) ==
    IF colType = CharType(2)
    THEN (IF Len(text) > 2 THEN SubSeq(text, 1, 2)
          ELSE text \o [k \in 1..(2 - Len(text)) |-> " "])
    ELSE IF colType = VarcharType(3)
    THEN (IF Len(text) > 3 THEN SubSeq(text, 1, 3) ELSE text)
    ELSE text

\* C23: the row read from the line written for a row that insert accepted
\* has one cell for each column of the schema, each with the value the row
\* was given in its canonical form (char(N) padded with spaces to N,
\* varchar(N) cut to N), whether the value is NULL or holds spaces or
\* quotes: the value is the one formatColumnValue made of the value of the
\* row, and for a literal without escapes it is the canonical form of the
\* literal's text.
C23_RowRoundTrip ==
    stream.pc = "read" =>
       /\ Len(stream.read) = Len(RowHeader)
       /\ \A i \in 1..Len(RowHeader) :
             /\ stream.read[i].metadata = Schema(Name_t, RowHeader)[i]
             /\ stream.read[i].colValue
                   = formatColumnValue(RowHeader[i].colType,
                                       getEscapedString(stream.values[i]).str).str
             /\ PlainLiteral(stream.values[i]) =>
                   stream.read[i].colValue
                      = CanonicalForm(RowHeader[i].colType, LiteralText(stream.values[i]))

\* A row with a NULL name and a quote in its last cell is read back
C23_NullAndQuoteRead ==
    /\ stream.pc = "read"
    /\ stream.values[2] = NULL_VALUE
    /\ \E k \in 1..Len(stream.row[3]) : stream.row[3][k] = "\""

\* A row with a space in its name and a padded last cell is read back
C23_SpaceAndPaddingRead ==
    /\ stream.pc = "read"
    /\ stream.row[2] = <<"a", " ", "b">>
    /\ stream.row[3] = <<"a", " ">>


(***************************************************************************)
(* The build map under build rows of equal keys.                           *)
(***************************************************************************)
\* A join of t and u under `t.id = u.b`, as the query or joinTo makes it,
\* read to its end without ORDER BY, DISTINCT or a column filter
ConditionedJoinEnded ==
    /\ stream.pc = "end"
    /\ last.type = "select"
    /\ DOMAIN stream.table.columnMap # {}
    /\ stream.orderBy = <<>>
    /\ ~stream.table.distinct
    /\ stream.table.colFilter = <<>>

\* The indices of the rows of the build table whose key cell is key
BuildRowsOf(key) ==
    {k \in 1..Len(tables[stream.table.build].rows) :
        JoinKey(stream.table.build, tables[stream.table.build].rows[k]) = key}

\* The last of them in the order of the file
LastBuildRowOf(key) ==
    tables[stream.table.build].rows[CHOOSE k \in BuildRowsOf(key) :
                                       \A j \in BuildRowsOf(key) : j <= k]

\* The cells of the probe row and the cells merged into it in a row emitted
ProbeCells(line) == SubSeq(line, 1, Len(tables[stream.table.probe].header))
MergedCells(line) == SubSeq(line, Len(tables[stream.table.probe].header) + 1, Len(line))

\* C40: when several rows of the build table hold the same value in the
\* key column, each probe row with that value is emitted once, merged with
\* the last of those build rows in the order of the file and with no other.
C40_LastBuildRowOfKey ==
    ConditionedJoinEnded =>
       /\ \A i \in 1..Len(stream.out) :
             Cardinality(BuildRowsOf(JoinKey(stream.table.probe, ProbeCells(stream.out[i])))) > 1
                => MergedCells(stream.out[i])
                      = LastBuildRowOf(JoinKey(stream.table.probe, ProbeCells(stream.out[i])))
       /\ Cardinality({i \in 1..Len(stream.out) :
             Cardinality(BuildRowsOf(JoinKey(stream.table.probe, ProbeCells(stream.out[i])))) > 1})
          = Cardinality({k \in 1..Len(tables[stream.table.probe].rows) :
               Cardinality(BuildRowsOf(JoinKey(stream.table.probe,
                                               tables[stream.table.probe].rows[k]))) > 1})

\* u, with two rows of key 1 and different cells, is the build table of a
\* join with three rows of t, and the row of t with key 1 was emitted
C40_TwoBuildRowsOfKeyOne ==
    /\ ConditionedJoinEnded
    /\ stream.table.build = Name_u
    /\ tables[Name_u].rows = <<<<<<"1">>, <<"1">>>>, <<NULL_VALUE, <<"1">>>>>>
    /\ \E i \in 1..Len(stream.out) : ProbeCells(stream.out[i])[1] = <<"1">>


(***************************************************************************)
(* The build and the probe table of a join.                                *)
(***************************************************************************)
\* std::numeric_limits<int>::max(), the row count of a remote table
INT_MAX == 2147483647

\* Table::countRows: one for each line after the header
countRows(file) == Len(file.rows)

\* The Table of executeSelectQuery for the name tableName in FROM:
\* Table(tableName, schema) on the file, Table(stream, url, schema) on what
\* the URL returned.  arg tells the first table of the join from the second.
TableOfName(files, tableName, arg) ==
    [table |-> NewTable(tableName), arg |-> arg,
     rowCount |-> IF NewTable(tableName).isFromURL THEN INT_MAX
                  ELSE countRows(files[tableName])]

\* assignBuildAndProbeTables were the first table the probe side on a tie
assignBuildAndProbeOnTie(table1, table2) ==
    IF table1.rowCount >= table2.rowCount
    THEN [build |-> table2, probe |-> table1]
    ELSE [build |-> table1, probe |-> table2]

\* JoinedTable::assignBuildAndProbeTables on the two Table objects:
\* [build, probe]
assignBuildAndProbe(table1, table2) ==
    IF table1.rowCount > table2.rowCount
    THEN [build |-> table2, probe |-> table1]
    ELSE [build |-> table1, probe |-> table2]

NoSides == [pc |-> "none", table1 |-> <<>>, table2 |-> <<>>, sides |-> <<>>]

\* The names in FROM: the two files and a URL
FromNames == {Name_t, Name_u, Url_t}

InitSides ==
    /\ tables \in SelectedDirectories
    /\ tmps = [n \in TableNames |-> NoFile]
    /\ last = Last("", <<>>, <<>>, <<>>, "", <<>>)
    /\ where = NoWhere
    /\ stream = NoSides

\* The first turn of the loop of executeSelectQuery over tableNames
FirstTable(tableName) ==
    /\ stream.pc = "none"
    /\ stream' = [stream EXCEPT !.pc = "table",
                                !.table1 = TableOfName(tables, tableName, 1)]
    /\ UNCHANGED <<tables, tmps, last, where>>

\* The second turn: table->joinTo(tableToJoin, joinConditions) as far as
\* the choice of the two sides
SecondTable(tableName) ==
    /\ stream.pc = "table"
    /\ \E t2 \in {TableOfName(tables, tableName, 2)} :
          stream' = [stream EXCEPT !.pc = "joined", !.table2 = t2,
                                   !.sides = assignBuildAndProbe(stream.table1, t2)]
    /\ UNCHANGED <<tables, tmps, last, where>>

NextSides ==
    \/ \E tableName \in FromNames : FirstTable(tableName)
    \/ \E tableName \in FromNames : SecondTable(tableName)

SpecSides == InitSides /\ [][NextSides]_vars

\* The rows a table of the join holds: those of its file; of a remote table
\* the number is not known
RowsHeld(t) == Len(tables[t.table.tableName].rows)

\* C33: of the two tables of a join the one with strictly fewer rows is the
\* build side and the other the probe side, the first table is the build
\* side when both hold as many rows, and a remote table joined with a table
\* of a file is the probe side whether it is the first or the second.
C33_SmallerTableBuilds ==
    stream.pc = "joined" =>
       /\ {stream.sides.build.arg, stream.sides.probe.arg} = {1, 2}
       /\ (~stream.table1.table.isFromURL /\ ~stream.table2.table.isFromURL) =>
             /\ RowsHeld(stream.table1) < RowsHeld(stream.table2)
                   => stream.sides.build = stream.table1
             /\ RowsHeld(stream.table2) < RowsHeld(stream.table1)
                   => stream.sides.build = stream.table2
             /\ RowsHeld(stream.table1) = RowsHeld(stream.table2)
                   => stream.sides.build = stream.table1
       /\ (stream.table1.table.isFromURL /\ ~stream.table2.table.isFromURL)
             => stream.sides.probe = stream.table1
       /\ (stream.table2.table.isFromURL /\ ~stream.table1.table.isFromURL)
             => stream.sides.probe = stream.table2

\* A remote table was joined as the first table with a file of two rows
C33_RemoteFirstIsProbe ==
    /\ stream.pc = "joined"
    /\ stream.table1.table.isFromURL
    /\ ~stream.table2.table.isFromURL
    /\ stream.table2.rowCount = 2
    /\ stream.sides.probe.arg = 1

\* Two files of one row each were joined
C33_TieFirstIsBuild ==
    /\ stream.pc = "joined"
    /\ stream.table1.rowCount = 1
    /\ stream.table2.rowCount = 1
    /\ stream.table1.table.tableName # stream.table2.table.tableName
    /\ stream.sides.build.arg = 1


(***************************************************************************)
(* Query: the joinConditions property of a SELECT.                         *)
(***************************************************************************)
\* The sides of the comparisons of the WHERE clauses: two column names, a
\* number, a text between double quotes and one between single quotes
Lit_a_double == <<"\"", "a", "\"">>
Lit_a_single == <<"'", "a", "'">>
U_b == Name_u \o <<".">> \o Col_b
TripleSides == {Col_id, U_b, <<"1">>, Lit_a_double, Lit_a_single}

\* The comparison triples
Triples ==
    {[left |-> l, op |-> o, right |-> r] :
        l \in TripleSides, o \in {Op_eq, Op_lt}, r \in TripleSides}

\* The WHERE clauses: one triple, or two with and / or between them
TripleClauses ==
    {[triples |-> <<t>>, word |-> <<>>] : t \in Triples}
    \cup {[triples |-> <<t1, t2>>, word |-> w] :
             t1 \in Triples, w \in {W_and, W_or}, t2 \in Triples}

TripleText(t) == t.left \o <<" ">> \o t.op \o <<" ">> \o t.right

\* The restrictions property parseRestrictions leaves for a clause: its
\* parts, a space between two of them
RestrictionsOf(clause) ==
    IF Len(clause.triples) = 1 THEN TripleText(clause.triples[1])
    ELSE TripleText(clause.triples[1]) \o <<" ">> \o clause.word \o <<" ">>
         \o TripleText(clause.triples[2])

NoExtraction == [pc |-> "none", clause |-> [triples |-> <<>>, word |-> <<>>], restrictions |-> <<>>,
                 thrown |-> "", joinConditions |-> <<>>]

InitConditions ==
    /\ tables = [n \in TableNames |-> NoFile]
    /\ tmps = [n \in TableNames |-> NoFile]
    /\ last = Last("", <<>>, <<>>, <<>>, "", <<>>)
    /\ where = NoWhere
    /\ \E clause \in TripleClauses :
          stream = [NoExtraction EXCEPT !.pc = "restrictions", !.clause = clause,
                                        !.restrictions = RestrictionsOf(clause)]

\* properties["joinConditions"] = extractJoinConditions(properties)
ExtractJoinConditions ==
    /\ stream.pc = "restrictions"
    /\ \E j \in {extractJoinConditions(stream.restrictions)} :
          stream' = [stream EXCEPT !.pc = IF j.err = "" THEN "extracted" ELSE "thrown",
                                   !.thrown = j.err, !.joinConditions = j.str]
    /\ UNCHANGED <<tables, tmps, last, where>>

NextConditions == ExtractJoinConditions

SpecConditions == InitConditions /\ [][NextConditions]_vars

\* A side that is neither a number nor a text between single or double
\* quotes
ColumnNameLike(side) ==
    /\ side[1] # "\"" /\ side[1] # "'"
    /\ ~IsDigit(side[1])

\* The triples of a clause whose two sides are column-name-like, in order
ColumnTriples(clause) ==
    SelectSeq(clause.triples,
              LAMBDA t : ColumnNameLike(t.left) /\ ColumnNameLike(t.right))

\* Their texts, a space between two of them; the empty string for none
RECURSIVE TriplesText(_)
TriplesText(triples) ==
    IF triples = <<>> THEN <<>>
    ELSE IF Len(triples) = 1 THEN TripleText(triples[1])
    ELSE TripleText(triples[1]) \o <<" ">> \o TriplesText(Tail(triples))

\* C34: the joinConditions property of a parsed SELECT holds exactly the
\* comparison triples of the WHERE clause whose two sides are both
\* column-name-like (no number, no text between single or double quotes),
\* and it is the empty string when the clause has no such triple.
C34_JoinConditionsAreColumnTriples ==
    stream.pc \in {"extracted", "thrown"} =>
       /\ stream.thrown = ""
       /\ stream.joinConditions = TriplesText(ColumnTriples(stream.clause))

\* The same for the clauses without single quotes that hold a triple of two
\* column names
C34_DoubleQuotedClauses ==
    (/\ stream.pc \in {"extracted", "thrown"}
     /\ ColumnTriples(stream.clause) # <<>>
     /\ \A k \in 1..Len(stream.clause.triples) :
           /\ stream.clause.triples[k].left # Lit_a_single
           /\ stream.clause.triples[k].right # Lit_a_single)
    => /\ stream.thrown = ""
       /\ stream.joinConditions = TriplesText(ColumnTriples(stream.clause))


(***************************************************************************)
(* The kind of the errors.                                                 *)
(***************************************************************************)
\* C31: every query that fails is reported with an InvalidQuery error and
\* with no error of another kind, an UPDATE that names an unknown column
\* among them.
C31_OnlyInvalidQuery ==
    last.err # "" => last.err \in InvalidQueries


(***************************************************************************)
(* The referenced-by check of DELETE.                                      *)
(***************************************************************************)
\* Some table file has a column declared REFERENCES n.c, c being the column
\* at index p of table n, and a row with the non-null value v in it
ReferencedInTableFile(n, p, v) ==
    \E m \in TableNames :
       /\ tables[m].exists
       /\ \E j \in 1..Len(tables[m].header) :
             /\ tables[m].header[j].references
                   = n \o <<".">> \o tables[n].header[p].colName
             /\ \E k \in 1..Len(tables[m].rows) :
                   /\ tables[m].rows[k][j] # NULL_VALUE
                   /\ tables[m].rows[k][j] = v

\* The WHERE clause is evaluated on every row of table n without an error
WhereEvaluates(n, restrictions) ==
    /\ parseRestriction(restrictions).err = ""
    /\ \A i \in 1..Len(tables[n].rows) :
          apply(parseRestriction(restrictions).restriction,
                ReadRow(Schema(n, tables[n].header), tables[n].rows[i])).err = ""

\* C32: a DELETE is rejected by the referenced-by check if and only if a
\* cell of a row it deletes holds a value that a row of some table file
\* holds, non-null, in a column declared REFERENCES that cell's column:
\* every referencing column of every table file counts, and no other file
\* of the directory does.
C32_ReferencedByCheck ==
    [][\A n \in TableNames :
          (tables[n].exists /\ DeleteOf(n) /\ WhereEvaluates(n, last'.restrictions))
          => (last'.err = Referenced
              <=> \E i \in 1..Len(tables[n].rows) :
                     /\ PassesWhere(n, last'.restrictions, i)
                     /\ \E p \in 1..Len(tables[n].header) :
                           ReferencedInTableFile(n, p, tables[n].rows[i][p]))]_vars


(***************************************************************************)
(* The stream of a base table, pull by pull.  The table k of this part is  *)
(* the one `CREATE TABLE k ( a varchar ( 3 ) , b varchar ( 3 ) ) ;` makes, *)
(* its rows are those Table::insertRow has written (a client of the        *)
(* library inserts texts that hold a semicolon, which a query cannot; the  *)
(* file of a remote table holds any text).  A Table is made of it as       *)
(* executeSelectQuery makes it, and is then read row by row as the loop of *)
(* main reads it, rewound with reset and ordered again once it has ended.  *)
(* The Table is a record of its fields: the row lines of its tableStream   *)
(* and the line the stream stands before (pos, past the last line once a   *)
(* read has failed), hasRows, the postfix text of its restriction,         *)
(* colFilter, distinct and columnsFound; resets counts the calls of reset  *)
(* and orderBy made on it.                                                 *)
(***************************************************************************)
MaxPulled == 3
MaxResets == 1

PulledHeader ==
    <<HeaderColumn(Col_a, VarcharType(3), <<>>, FALSE, FALSE),
      HeaderColumn(Col_b, VarcharType(3), <<>>, FALSE, FALSE)>>

Lit_semi_b_eq == <<"\"", ";", "b", "=", "\"">>
Lit_x == <<"\"", "x", "\"">>
Lit_y == <<"\"", "y", "\"">>
Lit_z == <<"\"", "z", "\"">>

\* The columnValues of the rows inserted
PulledValues ==
    {<<Lit_semi_b_eq, NULL_VALUE>>, <<NULL_VALUE, Lit_semi_b_eq>>,
     <<Lit_x, Lit_y>>, <<Lit_x, Lit_z>>}

\* The row line Table::insertRow writes for each
PulledRows ==
    {r.tables[Name_k].rows[1] :
        r \in {q \in {insertRow([n \in TableNames |->
                                    IF n = Name_k THEN File(PulledHeader, <<>>)
                                    ELSE NoFile],
                                Name_k, values, "garbage") : values \in PulledValues} :
                  q.err = ""}}

PulledDirectories ==
    {[n \in TableNames |-> IF n = Name_k THEN File(PulledHeader, lines) ELSE NoFile] :
        lines \in UNION {[1..k -> PulledRows] : k \in 0..MaxPulled}}

Where_b_eq_y == <<"b", " ", "=", " ", "\"", "y", "\"">>
Where_b_ne_y == <<"b", " ", "!", "=", " ", "\"", "y", "\"">>
Cols_a_b == Col_a \o <<",">> \o Col_b

\* The restrictions, columnNames and orderBy properties of the queries
PulledWheres == {<<>>, Where_b_eq_y, Where_b_ne_y}
PulledColumns == {<<"*">>, Col_a, Cols_a_b}
PulledOrderBys == {<<>>, Col_b}

\* The do-while of Table::extractRow from line pos of the stream on, a
\* being what restriction.apply(row) returned or threw for the row read:
\* [err, pos, hasRows, row]
RECURSIVE readPassingRow(_, _)

readPassingRowAfter(table, pos, row, a) ==
    IF a.err # "" THEN [err |-> a.err, pos |-> pos + 1, hasRows |-> TRUE, row |-> row]
    ELSE IF a.val THEN [err |-> "", pos |-> pos + 1, hasRows |-> TRUE, row |-> row]
    ELSE readPassingRow(table, pos + 1)

readPassingRowOf(table, pos, row) ==
    readPassingRowAfter(table, pos, row, apply(table.restriction, row))

readPassingRow(table, pos) ==
    \* `if (!(*tableStream >> row)) { hasRows = false; break; }`, the
    \* columns of row cleared by the read
    IF pos > Len(table.rows)
    THEN [err |-> "", pos |-> pos, hasRows |-> FALSE, row |-> <<>>]
    ELSE readPassingRowOf(table, pos, ReadRow(table.schema, table.rows[pos]))

\* Table::extractRow: [err, table, row]
RECURSIVE Table_extractRow(_)

\* The end of one turn of the while loop, f being what
\* orderAndFilterColumns made of the row or threw
Table_extractRowFiltered(table, f) ==
    IF f.err # "" THEN [err |-> f.err, table |-> table, row |-> f.row]
    ELSE IF ~table.distinct THEN [err |-> "", table |-> table, row |-> f.row]
    ELSE IF colValues(f.row) \notin table.columnsFound
    THEN [err |-> "",
          table |-> [table EXCEPT !.columnsFound = @ \cup {colValues(f.row)}],
          row |-> f.row]
    ELSE Table_extractRow(table)

\* One turn of the while loop, p being what the do-while read
Table_extractRowRead(table, p) ==
    IF p.err # ""
    THEN [err |-> p.err, table |-> [table EXCEPT !.pos = p.pos], row |-> p.row]
    ELSE Table_extractRowFiltered(
             [table EXCEPT !.pos = p.pos, !.hasRows = p.hasRows],
             IF p.hasRows THEN orderAndFilterColumns(p.row, table.colFilter)
             ELSE [err |-> "", row |-> p.row])

Table_extractRow(table) ==
    IF ~table.hasRows THEN [err |-> "", table |-> table, row |-> <<>>]
    ELSE Table_extractRowRead(table, readPassingRow(table, table.pos))

\* A variant of Table::reset that leaves the stream where it stands.
Table_resetWithoutSeek(table) ==
    [table EXCEPT !.hasRows = TRUE, !.resets = @ + 1]

\* Table::reset
Table_reset(table) ==
    [table EXCEPT !.pos = 1, !.hasRows = TRUE, !.resets = @ + 1]

\* Table::orderBy on a Table whose stream has ended (the loop
\* `while (*this >> row)` reads no row): the Table it leaves
Table_orderByEnded(table, colNames) ==
    IF colNames = <<>> THEN [table EXCEPT !.resets = @ + 1]
    ELSE [table EXCEPT !.rows = <<>>, !.pos = 1, !.hasRows = TRUE, !.resets = @ + 1]

\* The Table executeSelectQuery leaves for one base table, o being what
\* orderBy made of its stream
SelectedTable(tableName, schema, restriction, distinct, columnNames, o) ==
    [tableName |-> tableName, schema |-> schema, rows |-> o.file.rows, pos |-> 1,
     hasRows |-> TRUE, restriction |-> restriction,
     colFilter |-> filterColumnsByName(columnNames), distinct |-> distinct,
     columnsFound |-> {}, resets |-> 0]

InitPull ==
    /\ tables \in PulledDirectories
    /\ tmps = [n \in TableNames |-> NoFile]
    /\ last = Last("", <<>>, <<>>, <<>>, "", <<>>)
    /\ where = NoWhere
    /\ stream = NoStream

\* executeSelectQuery for the table k
OpenSelect(columnNames, restrictions, orderByNames, distinct) ==
    /\ stream.pc = "none"
    /\ \E r \in {parseRestriction(restrictions)} :
          /\ r.err = ""
          /\ \E o \in orderBy(tables[Name_k], Schema(Name_k, tables[Name_k].header),
                              r.restriction, orderByNames, FALSE) :
                stream' = [NoStream EXCEPT
                              !.pc = IF o.err = "" THEN "open" ELSE "failed",
                              !.orderBy = orderByNames, !.distinct = distinct,
                              !.call = "Table", !.thrown = o.err,
                              !.table = SelectedTable(Name_k,
                                            Schema(Name_k, tables[Name_k].header),
                                            r.restriction, distinct, columnNames, o)]
    /\ last' = Last("select", Name_k, restrictions, columnNames, "", <<>>)
    /\ UNCHANGED <<tables, tmps, where>>

\* `result >> row` and the test of result in the loop of main
PullRow ==
    /\ stream.pc = "open"
    /\ \E e \in {Table_extractRow(stream.table)} :
          stream' = [stream EXCEPT
                        !.table = e.table, !.call = ">>", !.thrown = e.err,
                        !.out = IF e.err = "" /\ e.table.hasRows
                                THEN Append(@, [k \in 1..Len(e.row) |-> e.row[k].colValue])
                                ELSE @]
    /\ UNCHANGED <<tables, tmps, last, where>>

\* table.reset(); out holds the rows read since
Reset ==
    /\ stream.pc = "open"
    /\ stream.table.resets < MaxResets
    /\ stream' = [stream EXCEPT !.table = Table_reset(@), !.call = "reset",
                                !.thrown = "", !.out = <<>>]
    /\ UNCHANGED <<tables, tmps, last, where>>

\* table.orderBy(colNames) once the stream has ended
OrderByEnded(colNames) ==
    /\ stream.pc = "open"
    /\ ~stream.table.hasRows
    /\ stream.table.resets < MaxResets
    /\ stream' = [stream EXCEPT !.table = Table_orderByEnded(@, colNames),
                                !.call = "orderBy", !.thrown = "",
                                !.out = IF colNames = <<>> THEN @ ELSE <<>>]
    /\ UNCHANGED <<tables, tmps, last, where>>

NextPull ==
    \/ \E columnNames \in PulledColumns, restrictions \in PulledWheres,
          orderByNames \in PulledOrderBys, distinct \in BOOLEAN :
             OpenSelect(columnNames, restrictions, orderByNames, distinct)
    \/ PullRow
    \/ Reset
    \/ \E colNames \in PulledOrderBys : OrderByEnded(colNames)

SpecPull == InitPull /\ [][NextPull]_vars

\* The stream stands before a row line
RowsAhead ==
    /\ stream.pc = "open"
    /\ stream.table.hasRows
    /\ stream.table.pos <= Len(stream.table.rows)

\* The stream stands at its end and no read has failed yet
AtEnd ==
    /\ stream.pc = "open"
    /\ stream.table.hasRows
    /\ stream.table.pos > Len(stream.table.rows)

\* The loop of main pulls until the test of result fails: weak fairness of
\* PullRow, written for the pulls that read a row line with the state
\* predicate RowsAhead, which holds where such a pull is enabled (it moves
\* the stream).
SpecPullFair ==
    /\ SpecPull
    /\ WF_vars(AtEnd /\ PullRow)
    /\ ([]<>(~RowsAhead) \/ []<><<RowsAhead /\ PullRow>>_vars)


\* The row line `line` of the table k satisfies the WHERE clause
\* `restrictions`
Qualifies(restrictions, line) ==
    IF restrictions = Where_b_eq_y THEN line[2] = <<"y">>
    ELSE IF restrictions = Where_b_ne_y THEN line[2] # <<"y">>
    ELSE TRUE

\* The cells of the row line `line` of the table k under the column names
\* of a SELECT
Projected(columnNames, line) ==
    IF columnNames = Col_a THEN <<line[1]>> ELSE line

\* The lines of the stream before line pos that satisfy the WHERE clause,
\* in the order of the stream
QualifyingBefore(restrictions, lines, pos) ==
    With({i \in 1..(pos - 1) : Qualifies(restrictions, lines[i])}, LAMBDA Q :
        [k \in 1..Cardinality(Q) |->
            lines[CHOOSE i \in Q : Cardinality({j \in Q : j < i}) = k - 1]])

\* The rows the pulls have emitted since the stream was last at its start
\* are the qualifying lines the stream has passed, each once and in the
\* order of the stream.
EmittedInFileOrder ==
    (stream.pc = "open" /\ ~stream.distinct)
    => With(QualifyingBefore(last.restrictions, stream.table.rows, stream.table.pos),
            LAMBDA q :
               /\ stream.thrown = ""
               /\ Len(stream.out) = Len(q)
               /\ \A k \in 1..Len(q) :
                     stream.out[k] = Projected(last.columnNames, q[k]))

\* A pull made while hasRows is false leaves it false and emits no row.
EndedStaysEnded ==
    (/\ stream.pc = "open"
     /\ ~stream.table.hasRows
     /\ stream'.call = ">>")
    => (~stream'.table.hasRows /\ stream'.out = stream.out)

StreamHasRows == stream.pc = "open" /\ stream.table.hasRows

StreamEnded == stream.pc = "open" /\ ~stream.table.hasRows

\* C36: without DISTINCT, repeated pulls of a base table emit each
\* qualifying row once, in the order of the file (of the buffer orderBy
\* left), while hasRows is true; the loop of pulls leads to the pull that
\* finds the end of the stream and sets hasRows to false; hasRows then
\* stays false and no row is emitted until reset or orderBy is called.
C36_StreamEnd ==
    /\ []EmittedInFileOrder
    /\ [][EndedStaysEnded]_vars
    /\ StreamHasRows ~> StreamEnded

\* C36 witness: of the three lines (x, y), (x, z), (x, y) the pulls of
\* `... WHERE b = "y"` have emitted the first and the third and the stream
\* has ended.
C36_TwoOfThreeEmitted ==
    /\ stream.pc = "open"
    /\ ~stream.distinct
    /\ stream.orderBy = <<>>
    /\ last.restrictions = Where_b_eq_y
    /\ last.columnNames = <<"*">>
    /\ tables[Name_k].rows = <<<<<<"x">>, <<"y">>>>, <<<<"x">>, <<"z">>>>,
                               <<<<"x">>, <<"y">>>>>>
    /\ ~stream.table.hasRows
    /\ stream.out = <<<<<<"x">>, <<"y">>>>, <<<<"x">>, <<"y">>>>>>

\* C36 witness: the stream that ended is read again from its start after
\* reset.
C36_ReadAgainAfterReset ==
    /\ stream.pc = "open"
    /\ stream.table.resets = 1
    /\ stream.call = ">>"
    /\ stream.table.hasRows
    /\ Len(stream.out) = 2


\* The rows a read of the lines before line pos emits when the WHERE clause
\* is evaluated on the whole line, the line is projected next, and DISTINCT
\* drops a row whose projected cells are those of a qualifying line before
\* it.
EmittedBefore(restrictions, columnNames, distinct, lines, pos) ==
    With({i \in 1..(pos - 1) :
             /\ Qualifies(restrictions, lines[i])
             /\ distinct
                   => \A j \in 1..(i - 1) :
                         Qualifies(restrictions, lines[j])
                            => Projected(columnNames, lines[j])
                                  # Projected(columnNames, lines[i])},
         LAMBDA Q :
            [k \in 1..Cardinality(Q) |->
                Projected(columnNames,
                          lines[CHOOSE i \in Q : Cardinality({j \in Q : j < i}) = k - 1])])

\* C35: the rows the pulls of a read have emitted are those of the lines
\* the stream has passed with the WHERE clause evaluated on the unprojected
\* row, the projection applied next, and DISTINCT comparing the projected
\* cells with those of the rows emitted before.
C35_OperatorOrder ==
    (stream.pc = "open" /\ stream.table.resets = 0)
    => stream.out = EmittedBefore(last.restrictions, last.columnNames, stream.distinct,
                                  stream.table.rows, stream.table.pos)


\* C37: once a read with DISTINCT has ended, the projected cells of every
\* qualifying row line have been emitted exactly once (no row is suppressed
\* by the fingerprint of a row with other projected cells).
C37_DistinctComplete ==
    (/\ StreamEnded
     /\ stream.distinct
     /\ stream.table.resets = 0)
    => \A i \in 1..Len(stream.table.rows) :
          Qualifies(last.restrictions, stream.table.rows[i])
             => Cardinality({k \in 1..Len(stream.out) :
                                stream.out[k] = Projected(last.columnNames,
                                                          stream.table.rows[i])}) = 1


(***************************************************************************)
(* The three states of a cell: NULL, a value, and not initialised.         *)
(***************************************************************************)
\* C38: a cell written from the literal null reads back as NULL, a cell
\* written from any other literal the insert accepts (the empty text ""
\* too) reads back as a value that is not NULL, and the uninitialised
\* Column equals neither NULL nor a cell read back.
C38_CellStatesDistinct ==
    stream.pc = "read" =>
       /\ ~isNull(NoColumn)
       /\ \A i \in 1..Len(stream.read) :
             /\ stream.values[i] = NULL_VALUE <=> isNull(stream.read[i])
             /\ stream.read[i].colValue # NoColumn.colValue


(***************************************************************************)
(* CREATE TABLE with REFERENCES: the client creates the table u, in a      *)
(* directory that holds the table t, the table k, both or none, with a     *)
(* query that declares the column a, the column b or both.                 *)
(***************************************************************************)
Ref_t_zz == <<"t", ".", "z", "z">>
Ref_t_name == <<"t", ".", "n", "a", "m", "e">>
Ref_k_id == <<"k", ".", "i", "d">>
Col_a_int_references_t_id == <<"a", " ", "i", "n", "t", " ", "R", "E", "F", "E", "R", "E", "N", "C", "E", "S", " ", "(", " ", "t", ".", "i", "d", " ", ")">>
Col_a_bigint_references_t_id == <<"a", " ", "b", "i", "g", "i", "n", "t", " ", "R", "E", "F", "E", "R", "E", "N", "C", "E", "S", " ", "(", " ", "t", ".", "i", "d", " ", ")">>
Col_a_int_references_t_zz == <<"a", " ", "i", "n", "t", " ", "R", "E", "F", "E", "R", "E", "N", "C", "E", "S", " ", "(", " ", "t", ".", "z", "z", " ", ")">>
Col_a_int_references_k_id == <<"a", " ", "i", "n", "t", " ", "R", "E", "F", "E", "R", "E", "N", "C", "E", "S", " ", "(", " ", "k", ".", "i", "d", " ", ")">>
Col_a_int_references_b == <<"a", " ", "i", "n", "t", " ", "R", "E", "F", "E", "R", "E", "N", "C", "E", "S", " ", "(", " ", "b", " ", ")">>
Col_b_int == <<"b", " ", "i", "n", "t">>
Col_b_bigint == <<"b", " ", "b", "i", "g", "i", "n", "t">>
Col_b_varchar_3_references_t_name == <<"b", " ", "v", "a", "r", "c", "h", "a", "r", " ", "(", " ", "3", " ", ")", " ", "R", "E", "F", "E", "R", "E", "N", "C", "E", "S", " ", "(", " ", "t", ".", "n", "a", "m", "e", " ", ")">>

\* The items of the queries: the text of each and what it declares.
ReferencingItems ==
    <<[text |-> Col_a_int_references_t_id, colName |-> Col_a, colType |-> T_int,
       references |-> Ref_t_id],
      [text |-> Col_a_bigint_references_t_id, colName |-> Col_a, colType |-> T_bigint,
       references |-> Ref_t_id],
      [text |-> Col_a_int_references_t_zz, colName |-> Col_a, colType |-> T_int,
       references |-> Ref_t_zz],
      [text |-> Col_a_int_references_k_id, colName |-> Col_a, colType |-> T_int,
       references |-> Ref_k_id],
      [text |-> Col_a_int_references_b, colName |-> Col_a, colType |-> T_int,
       references |-> Col_b],
      [text |-> Col_b_int, colName |-> Col_b, colType |-> T_int,
       references |-> <<>>],
      [text |-> Col_b_bigint, colName |-> Col_b, colType |-> T_bigint,
       references |-> <<>>],
      [text |-> Col_b_varchar_3_references_t_name, colName |-> Col_b, colType |-> VarcharType(3),
       references |-> Ref_t_name]>>

\* The texts of the items, a comma between two of them
RECURSIVE ReferencingText(_)
ReferencingText(items) ==
    IF Len(items) = 1 THEN ReferencingItems[items[1]].text
    ELSE ReferencingItems[items[1]].text \o <<" ", ",", " ">>
         \o ReferencingText(Tail(items))

\* CREATE TABLE u ( items ) ;
CreateReferencingText(items) ==
    <<"C", "R", "E", "A", "T", "E", " ", "T", "A", "B", "L", "E", " ", "u", " ", "(", " ">> \o ReferencingText(items) \o <<" ", ")", " ", ";">>

\* The item lists of the queries: one or two columns of different names
ReferencingQueries ==
    UNION {{items \in [1..k -> 1..Len(ReferencingItems)] :
               \A i, j \in 1..k :
                  i # j => ReferencingItems[items[i]].colName
                              # ReferencingItems[items[j]].colName} : k \in 1..2}

\* The directories: each of t and k is there, with its rows, or is not
ReferencedDirectories ==
    {[n \in TableNames |->
         IF n = Name_t THEN ft ELSE IF n = Name_k THEN fk ELSE NoFile] :
        ft \in {NoFile, File(Header(Name_t), <<>>),
                File(Header(Name_t), <<<<<<"1">>, <<"a">>>>>>)},
        fk \in {NoFile, File(Header(Name_k), <<>>)}}

InitReferences ==
    /\ tables \in ReferencedDirectories
    /\ tmps = [n \in TableNames |-> NoFile]
    /\ last = Last("", <<>>, <<>>, <<>>, "", <<>>)
    /\ where = NoWhere
    /\ stream = NoStream

\* main reads the CREATE query made of items and executes it; last keeps
\* the items of the query.
CreateReferencing(items) ==
    /\ last.type # "create"
    /\ \E r \in {executeCreate(tables, parseCreateQuery(CreateReferencingText(items)))} :
          /\ tables' = r.tables
          /\ last' = [type |-> "create", tableName |-> Name_u, items |-> items,
                      err |-> r.err]
    /\ UNCHANGED <<tmps, where, stream>>

NextReferences == \E items \in ReferencingQueries : CreateReferencing(items)

SpecReferences == InitReferences /\ [][NextReferences]_vars

\* The column the item at index i of a query declares
DeclaredBy(items, i) == ReferencingItems[items[i]]

\* The REFERENCES target of the column the item at index i declares is
\* valid: for a name without a table, a column the query declares under
\* that name has the type of the column; for table.column, the file of the
\* table exists and its header gives a column of that name and that type.
ValidTarget(files, items, i) ==
    IF FindChar(DeclaredBy(items, i).references, ".") = 0
    THEN \E j \in 1..Len(items) :
            /\ DeclaredBy(items, j).colName = DeclaredBy(items, i).references
            /\ DeclaredBy(items, j).colType = DeclaredBy(items, i).colType
    ELSE \E n \in TableNames :
            /\ files[n].exists
            /\ \E p \in 1..Len(files[n].header) :
                  /\ n \o <<".">> \o files[n].header[p].colName
                        = DeclaredBy(items, i).references
                  /\ files[n].header[p].colType = DeclaredBy(items, i).colType

\* Every REFERENCES target the query declares is valid
ValidTargets(files, items) ==
    \A i \in 1..Len(items) :
       DeclaredBy(items, i).references # <<>> => ValidTarget(files, items, i)

\* C39: a CREATE TABLE one of whose REFERENCES targets is not valid fails
\* with an InvalidQueryException and creates no file; a CREATE TABLE whose
\* targets are all valid succeeds and writes the references to the header.
C39_CreateValidatesReferences ==
    last.type = "create" =>
       IF ValidTargets(tables, last.items)
       THEN /\ last.err = ""
            /\ tables[Name_u].exists
            /\ \A i \in 1..Len(last.items) :
                  tables[Name_u].header[i].references
                     = DeclaredBy(last.items, i).references
       ELSE /\ last.err \in InvalidQueries
            /\ ~tables[Name_u].exists

\* C39 witness: `a bigint REFERENCES ( t.id )` is rejected while t exists,
\* its id being an int.
C39_TypeMismatchRejected ==
    /\ last.type = "create"
    /\ last.items = <<2>>
    /\ tables[Name_t].exists
    /\ last.err \in InvalidQueries
    /\ ~tables[Name_u].exists

\* C39 witness: `a int REFERENCES ( b ) , b int` creates the table.
C39_SameTableTargetAccepted ==
    /\ last.type = "create"
    /\ last.items = <<5, 6>>
    /\ last.err = ""
    /\ tables[Name_u].exists

====
